---- MODULE Spec2Model ----
(***************************************************************************)
(* Resilience layer of atom-bot-mini: the logger's admin-notification      *)
(* throttle (core/logger.js), the error handler's classifier and context   *)
(* tracker (core/errorHandler.js), the retry wrapper                       *)
(* (core/commandWrapper.js) and the health check registry                  *)
(* (core/healthMonitor.js).                                                *)
(***************************************************************************)
EXTENDS Integers, Sequences, FiniteSets, TLC

(***************************************************************************)
(* Bounds of the exploration.                                              *)
(***************************************************************************)
MaxAttempts == 3      \* notify attempts and resets recorded per behaviour
MaxWindows == 3       \* cooldown windows the clock may advance through
MaxLogged == 2        \* the same, where every kind of log call is explored
MaxRetriesOption == 4 \* the largest maxRetries a call site passes
MaxOverflow == 2      \* distinct fingerprints recorded beyond the tracker's cap
MaxReplays == 2       \* records of a message that was recorded before
MaxHandled == 1       \* errors reported to the error handler
MaxCycles == 2        \* health check cycles started
MaxCalls == 4         \* registerHealthCheck and runHealthChecks calls made
MaxErrorRate == 1     \* errors recorded while the monitor runs
MaxSends == 1         \* calls of the public senders of the e-mail service
MaxClock == 301001    \* the clock of the monitor, in milliseconds

(***************************************************************************)
(* JavaScript values.                                                      *)
(***************************************************************************)
Undefined == "undefined"

Falsy(v) == v \in {Undefined, ""}

OrElse(v, d) == IF Falsy(v) THEN d ELSE v

\* a default parameter value (f(x = d)): used when the argument is undefined
DefaultParam(v, d) == IF v = Undefined THEN d ELSE v

Min(a, b) == IF a <= b THEN a ELSE b

\* String.prototype.substring(0, n)
Substring0(s, n) == SubSeq(s, 1, Min(n, Len(s)))

\* String.prototype.includes
Includes(s, t) ==
    \E i \in 0..(Len(s) - Len(t)) : SubSeq(s, i + 1, i + Len(t)) = t

\* Map.prototype.set on a map held as a function
MapSet(m, k, v) == [x \in DOMAIN m \cup {k} |-> IF x = k THEN v ELSE m[x]]

EmptyMap == [x \in {} |-> 0]

Severities == {"low", "medium", "high", "critical"}

VARIABLES
    now,                    \* Date.now(), in milliseconds
    logLevelEnv,            \* process.env.LOG_LEVEL when the logger is built
    errorCounts,            \* Logger.errorCounts
    lastAdminNotification,  \* Logger.lastAdminNotification
    emailEnv,               \* EMAIL, EMAIL_PASSWORD and the nodemailer package
    isConfigured,           \* EmailService.isConfigured
    sinkCalls,              \* calls of emailService.sendNotification
    notifyLog,              \* the handleAdminNotification attempts so far
    lastLog,                \* the Logger.error call made last and what it did
    inFlight,               \* the sendNotification calls that are awaited
    settled,                \* how the awaited sendNotification calls ended
    raised,                 \* rejections that escaped handleAdminNotification
    retryOptions,           \* the options given to withRetry
    retryPc,                \* where the function returned by withRetry is
    attempt,                \* the loop variable of withRetry
    lastError,              \* the last error caught by withRetry
    opCalls,                \* invocations of the wrapped operation
    waits,                  \* delays started between attempts
    failures,               \* the errors the operation has thrown, in order
    retryResult,            \* what the call returned or threw
    errorContexts,          \* ErrorHandler.errorContexts, in iteration order
    tracked,                \* calls of trackErrorContext so far
    insertedAt,             \* for each stored key, the call that inserted it
    lastTracked,            \* the key and data of the last call
    lastEvicted,            \* the key the last eviction removed
    replays,                \* calls made with a message used before
    nextFresh,              \* the number of the next unused message
    stats,                  \* what getErrorStats returned last
    handled,                \* errors reported to the error handler so far
    handlerCalls,           \* the handle*Error calls in progress
    lastHandled,            \* the last handle*Error call that ended
    classifyInput,          \* the error given to the classifiers
    classified,             \* the severities the classifiers returned
    lastWrapped,            \* how the last call of a wrapped function ended
    healthChecks,           \* HealthMonitor.healthChecks, in iteration order
    lastHealthReport,       \* HealthMonitor.lastHealthReport
    cycles,                 \* the runHealthChecks calls in progress
    registrations,          \* registerHealthCheck calls so far
    cyclesStarted,          \* runHealthChecks calls so far
    timerDue                \* when the timer of initialize() fires next

loggerVars == <<now, logLevelEnv, errorCounts, lastAdminNotification,
                emailEnv, isConfigured, sinkCalls, notifyLog, lastLog,
                inFlight, settled, raised>>

retryVars == <<retryOptions, retryPc, attempt, lastError, opCalls, waits,
               failures, retryResult>>

trackerVars == <<errorContexts, tracked, insertedAt, lastTracked, lastEvicted,
                 replays, nextFresh, stats>>

handlerVars == <<handled, handlerCalls, lastHandled, classifyInput,
                 classified, lastWrapped>>

healthVars == <<healthChecks, registrations, lastHealthReport, cycles,
                cyclesStarted, timerDue>>

vars == <<loggerVars, retryVars, trackerVars, handlerVars, healthVars>>

(***************************************************************************)
(* Logger (core/logger.js).  The maps and counters a log call may change   *)
(* are held in a record, so that a handler making several log calls can    *)
(* chain them.                                                             *)
(***************************************************************************)
levels == [error |-> 0, warn |-> 1, info |-> 2, debug |-> 3]

adminNotificationCooldown == 5 * 60 * 1000

LoggerState ==
    [errorCounts |-> errorCounts,
     lastAdminNotification |-> lastAdminNotification,
     isConfigured |-> isConfigured,
     sinkCalls |-> sinkCalls,
     notifyLog |-> notifyLog,
     lastLog |-> lastLog,
     inFlight |-> inFlight,
     settled |-> settled,
     raised |-> raised]

\* the logger is left in state st
LoggerBecomes(st) ==
    /\ errorCounts' = st.errorCounts
    /\ lastAdminNotification' = st.lastAdminNotification
    /\ isConfigured' = st.isConfigured
    /\ sinkCalls' = st.sinkCalls
    /\ notifyLog' = st.notifyLog
    /\ lastLog' = st.lastLog
    /\ inFlight' = st.inFlight
    /\ settled' = st.settled
    /\ raised' = st.raised
    /\ UNCHANGED <<now, logLevelEnv, emailEnv>>

\* this.currentLevel >= this.levels[name], where currentLevel is
\* this.levels[process.env.LOG_LEVEL || 'info'] and undefined >= n is false
LevelEnabled(name) ==
    LET e == OrElse(logLevelEnv, "info")
    IN  /\ e \in DOMAIN levels
        /\ levels[e] >= levels[name]

getErrorKey(message, options) ==
    LET context == OrElse(options.context, "general")
        severity == OrElse(options.severity, "medium")
    IN  context \o ":" \o severity \o ":" \o Substring0(message, 50)

\* InCooldown with the window closed at its far end (<= for <)
InCooldownInclusive(st, errorKey) ==
    LET lastNotification ==
            IF errorKey \in DOMAIN st.lastAdminNotification
            THEN st.lastAdminNotification[errorKey] ELSE 0
    IN  now - lastNotification <= adminNotificationCooldown

\* the cooldown test of handleAdminNotification: TRUE when the attempt is
\* suppressed
InCooldown(st, errorKey) ==
    LET lastNotification ==
            IF errorKey \in DOMAIN st.lastAdminNotification
            THEN st.lastAdminNotification[errorKey] ELSE 0
    IN  now - lastNotification < adminNotificationCooldown

\* what emailService.initialize() meets: EMAIL or EMAIL_PASSWORD is not set;
\* both are set and nodemailer.createTransporter returns a transporter; both
\* are set and the call of nodemailer.createTransporter throws (the package
\* exports createTransport only)
EmailEnvs == {"unset", "usable", "unusable"}

\* Logger.error(message, error): the options are an Error, which has neither
\* a severity nor notifyAdmin, so the throttle is not consulted
LoggerErrorWithError(st) ==
    [st EXCEPT !.lastLog = [severity |-> Undefined, notifyAdmin |-> FALSE,
                            reached |-> FALSE]]

\* emailService.initialize(): logger.warn and return false; isConfigured =
\* true; or the catch block, which calls logger.error(message, error)
EmailServiceInitialize(st) ==
    CASE emailEnv = "unset" -> st
      [] emailEnv = "usable" -> [st EXCEPT !.isConfigured = TRUE]
      [] emailEnv = "unusable" -> LoggerErrorWithError(st)

\* if (!emailService.isEmailConfigured()) emailService.initialize()
EmailAfterInitialize(st) ==
    IF st.isConfigured THEN st ELSE EmailServiceInitialize(st)

\* ThrottleRecord left as it was until the dispatch has settled
ThrottleRecordDeferred(st, errorKey) == st.lastAdminNotification

\* ThrottleRecord that sets the timestamp only when it creates the record
ThrottleRecordCreatedOnly(st, errorKey) ==
    IF errorKey \in DOMAIN st.lastAdminNotification
    THEN st.lastAdminNotification
    ELSE MapSet(st.lastAdminNotification, errorKey, now)

\* this.lastAdminNotification.set(errorKey, now), made before any await
ThrottleRecord(st, errorKey) == MapSet(st.lastAdminNotification, errorKey, now)

handleAdminNotification(st, message, options) ==
    LET errorKey == getErrorKey(message, options)
        errorCount ==
            (IF errorKey \in DOMAIN st.errorCounts
             THEN st.errorCounts[errorKey] ELSE 0) + 1
        entry == [kind |-> "attempt", key |-> errorKey, at |-> now,
                  severity |-> options.severity,
                  forced |-> options.notifyAdmin]
    IN  IF InCooldown(st, errorKey)
        THEN [st EXCEPT !.notifyLog = Append(@,
                entry @@ [passed |-> FALSE, sent |-> FALSE, count |-> 0])]
        ELSE [EmailAfterInitialize(st) EXCEPT
                !.errorCounts = MapSet(@, errorKey, errorCount),
                !.lastAdminNotification = ThrottleRecord(st, errorKey),
                !.sinkCalls =
                    IF EmailAfterInitialize(st).isConfigured THEN @ + 1
                    ELSE @,
                !.inFlight =
                    IF EmailAfterInitialize(st).isConfigured
                    THEN @ \cup {Len(st.notifyLog) + 1} ELSE @,
                !.notifyLog = Append(@,
                    entry @@ [passed |-> TRUE,
                              sent |-> EmailAfterInitialize(st).isConfigured,
                              count |-> errorCount])]

\* Eligible with severity medium let through as well
EligibleFromMedium(options) ==
    \/ options.notifyAdmin
    \/ options.severity \in {"critical", "high", "medium"}

\* the test of Logger.error that decides whether the throttle is consulted
Eligible(options) ==
    \/ options.notifyAdmin
    \/ options.severity = "critical"
    \/ options.severity = "high"

\* Logger.error(message, options); handleAdminNotification runs up to its
\* first await inside the call, a log call of emailService.initialize()
\* included
LoggerError(st, message, options) ==
    LET call == [severity |-> options.severity,
                 notifyAdmin |-> options.notifyAdmin]
    IN  IF LevelEnabled("error") /\ Eligible(options)
        THEN handleAdminNotification(
                [st EXCEPT !.lastLog = call @@ [reached |-> TRUE]],
                message, options)
        ELSE [st EXCEPT !.lastLog = call @@ [reached |-> FALSE]]

\* Logger.critical(message, context)
LoggerCritical(st, message, context) ==
    LoggerError(st, message, [severity |-> "critical",
                              context |-> DefaultParam(context, "general"),
                              notifyAdmin |-> TRUE])

\* Logger.high(message, context)
LoggerHigh(st, message, context) ==
    LoggerError(st, message, [severity |-> "high",
                              context |-> DefaultParam(context, "general"),
                              notifyAdmin |-> TRUE])

\* Logger.medium(message, context)
LoggerMedium(st, message, context) ==
    LoggerError(st, message, [severity |-> "medium",
                              context |-> DefaultParam(context, "general"),
                              notifyAdmin |-> FALSE])

\* Logger.low(message, context)
LoggerLow(st, message, context) ==
    LoggerError(st, message, [severity |-> "low",
                              context |-> DefaultParam(context, "general"),
                              notifyAdmin |-> FALSE])

\* logger[severity](message, context): the call the error handler makes
LoggerBySeverity(st, severity, message, context) ==
    CASE severity = "critical" -> LoggerCritical(st, message, context)
      [] severity = "high" -> LoggerHigh(st, message, context)
      [] severity = "medium" -> LoggerMedium(st, message, context)
      [] severity = "low" -> LoggerLow(st, message, context)

\* Logger.resetErrorTracking()
resetErrorTracking(st) ==
    [st EXCEPT
        !.errorCounts = EmptyMap,
        !.lastAdminNotification = EmptyMap,
        !.notifyLog = Append(@,
            [kind |-> "reset", key |-> "", at |-> now,
             severity |-> Undefined, forced |-> FALSE,
             passed |-> FALSE, sent |-> FALSE, count |-> 0])]

\* how an awaited sendNotification ends: sendMail resolves ("sent"), sendMail
\* rejects and sendNotification returns false ("failed"), or the call of
\* sendNotification itself rejects ("throws")
SinkOutcomes == {"sent", "failed", "throws"}

\* Escapes without the catch block of handleAdminNotification
EscapesWhenThrown(outcome) == IF outcome = "throws" THEN 1 ELSE 0

\* the rejections that leave handleAdminNotification: its body is one try
\* block whose catch logs to the console
Escapes(outcome) == 0

\* RecordAfterDispatch that withdraws the record of a dispatch that was lost
RecordWithdrawnWhenLost(st, id, outcome) ==
    IF outcome = "sent"
    THEN st.lastAdminNotification
    ELSE [k \in DOMAIN st.lastAdminNotification \ {st.notifyLog[id].key}
            |-> st.lastAdminNotification[k]]

\* the throttle records once the awaited sendNotification has settled:
\* nothing after the await writes lastAdminNotification
RecordAfterDispatch(st, id, outcome) == st.lastAdminNotification

\* SinkSettled whose failed send is reported with logger.high, a call that
\* is eligible for admin notification
SinkSettledReportingHigh(st, id, outcome) ==
    LET done == [st EXCEPT
                    !.inFlight = @ \ {id},
                    !.settled = Append(@, [id |-> id, outcome |-> outcome]),
                    !.lastAdminNotification =
                        RecordAfterDispatch(st, id, outcome),
                    !.raised = @ + Escapes(outcome)]
    IN  IF outcome = "failed"
        THEN LoggerHigh(done, "Failed to send email notification:",
                        "email-service")
        ELSE done

\* the part of handleAdminNotification after await sendNotification, for
\* the attempt numbered id; a failed sendMail is logged by
\* logger.error('Failed to send email notification:', error)
SinkSettled(st, id, outcome) ==
    LET done == [st EXCEPT
                    !.inFlight = @ \ {id},
                    !.settled = Append(@, [id |-> id, outcome |-> outcome]),
                    !.lastAdminNotification =
                        RecordAfterDispatch(st, id, outcome),
                    !.raised = @ + Escapes(outcome)]
    IN  IF outcome = "failed" THEN LoggerErrorWithError(done) ELSE done

\* emailService.sendNotification(subject, message) called by a public
\* sender (sendEnvValidationFailure, sendStartupSuccess, ...), up to its
\* await of sendMail; without a transporter it returns false at once.  The
\* awaited call is numbered by the count of sink calls, negated
sendNotification(st) ==
    IF st.isConfigured
    THEN [st EXCEPT !.sinkCalls = @ + 1,
                    !.inFlight = @ \cup {-(st.sinkCalls + 1)}]
    ELSE [st EXCEPT !.sinkCalls = @ + 1]

\* the part of sendNotification after await sendMail, for the call id of a
\* public sender: sendMail resolves ("sent") or rejects ("failed")
SendSettled(st, id, outcome) ==
    LET done == [st EXCEPT
                    !.inFlight = @ \ {id},
                    !.settled = Append(@, [id |-> id, outcome |-> outcome])]
    IN  IF outcome = "failed" THEN LoggerErrorWithError(done) ELSE done

\* the clock advances; it is sampled at the edges of cooldown windows
Tick(d) ==
    /\ now + d <= MaxWindows * adminNotificationCooldown
    /\ ((now + d) % adminNotificationCooldown)
            \in {0, adminNotificationCooldown - 1}
    /\ now' = now + d
    /\ UNCHANGED <<logLevelEnv, errorCounts, lastAdminNotification,
                   emailEnv, isConfigured, sinkCalls, notifyLog, lastLog,
                   inFlight, settled, raised>>

\* the inputs of the logger's operations
Prefix50 == "Database error during saveGuildSettings on table g"

LogMessages == {Prefix50 \o "uild_settings", Prefix50 \o "uild_members"}

LogContexts == {Undefined, "database"}

LogOptions == [severity : Severities \cup {Undefined},
               context : {Undefined},
               notifyAdmin : BOOLEAN]

LogLevelEnvs == {Undefined, "verbose"}

StartTimes == {0, adminNotificationCooldown}

TickSteps == {1, adminNotificationCooldown - 1}

NoLog == [severity |-> Undefined, notifyAdmin |-> FALSE, reached |-> FALSE]

LoggerInit ==
    /\ now \in StartTimes
    /\ logLevelEnv \in LogLevelEnvs
    /\ errorCounts = EmptyMap
    /\ lastAdminNotification = EmptyMap
    /\ emailEnv \in EmailEnvs
    /\ isConfigured = FALSE
    /\ sinkCalls = 0
    /\ notifyLog = <<>>
    /\ lastLog = NoLog
    /\ inFlight = {}
    /\ settled = <<>>
    /\ raised = 0

\* the logger of a process that logs nothing
LoggerIdle ==
    /\ now = 0
    /\ logLevelEnv = Undefined
    /\ errorCounts = EmptyMap
    /\ lastAdminNotification = EmptyMap
    /\ emailEnv = "unset"
    /\ isConfigured = FALSE
    /\ sinkCalls = 0
    /\ notifyLog = <<>>
    /\ lastLog = NoLog
    /\ inFlight = {}
    /\ settled = <<>>
    /\ raised = 0

(***************************************************************************)
(* CommandWrapper.withRetry (core/commandWrapper.js).                      *)
(***************************************************************************)
NoError == [id |-> 0, retryable |-> FALSE]

\* const { maxRetries = 3, ... } = options
maxRetries ==
    IF retryOptions.maxRetries.given THEN retryOptions.maxRetries.value
    ELSE 3

\* const { ..., shouldRetry = () => true } = options
shouldRetry(error) ==
    CASE retryOptions.shouldRetry = Undefined -> TRUE
      [] retryOptions.shouldRetry = "isRetryable" -> error.retryable
      [] retryOptions.shouldRetry = "never" -> FALSE

\* GivesUp with the last retry dropped (attempt + 1 for attempt)
GivesUpOneEarly(error) == attempt + 1 >= maxRetries \/ ~shouldRetry(error)

\* the test of the catch block: the error is rethrown at once
GivesUp(error) == attempt = maxRetries \/ ~shouldRetry(error)

\* WaitsAfter with the delay taken before the test of the catch block
WaitsAfterAlways(error) == waits + 1

\* the delays started once the catch block has handled the error
WaitsAfter(error) == IF GivesUp(error) THEN waits ELSE waits + 1

\* the function returned by withRetry is called: the first attempt starts
RetryCall ==
    /\ retryPc = "idle"
    /\ attempt' = 0
    /\ IF 0 <= maxRetries
       THEN /\ retryPc' = "operation"
            /\ opCalls' = opCalls + 1
            /\ retryResult' = retryResult
       ELSE /\ retryPc' = "thrown"
            /\ opCalls' = opCalls
            /\ retryResult' = [kind |-> "thrown", error |-> lastError]
    /\ UNCHANGED <<retryOptions, lastError, waits, failures>>

\* the awaited operation resolves: its value is returned
OperationResolves ==
    /\ retryPc = "operation"
    /\ retryPc' = "returned"
    /\ retryResult' = [kind |-> "returned", error |-> NoError]
    /\ UNCHANGED <<retryOptions, attempt, lastError, opCalls, waits,
                   failures>>

\* the awaited operation rejects with error: the catch block
OperationRejects(error) ==
    /\ retryPc = "operation"
    /\ lastError' = error
    /\ failures' = Append(failures, error)
    /\ waits' = WaitsAfter(error)
    /\ IF GivesUp(error)
       THEN /\ retryPc' = "thrown"
            /\ retryResult' = [kind |-> "thrown", error |-> error]
       ELSE /\ retryPc' = "delay"
            /\ retryResult' = retryResult
    /\ UNCHANGED <<retryOptions, attempt, opCalls>>

\* DelayElapses for a delay whose promise is never resolved
DelayNeverResolved ==
    /\ retryPc = "delay"
    /\ UNCHANGED <<retryOptions, retryPc, attempt, lastError, opCalls, waits,
                   failures, retryResult>>

\* the timer of the delay fires: attempt++ and the loop test
DelayElapses ==
    /\ retryPc = "delay"
    /\ attempt' = attempt + 1
    /\ IF attempt + 1 <= maxRetries
       THEN /\ retryPc' = "operation"
            /\ opCalls' = opCalls + 1
            /\ retryResult' = retryResult
       ELSE /\ retryPc' = "thrown"
            /\ opCalls' = opCalls
            /\ retryResult' = [kind |-> "thrown", error |-> lastError]
    /\ UNCHANGED <<retryOptions, lastError, waits, failures>>

\* an option that is left out
NotGiven == [given |-> FALSE, value |-> 0]

\* the options a call site passes
RetryOptionSets ==
    [maxRetries : {NotGiven} \cup [given : {TRUE}, value : 0..MaxRetriesOption],
     shouldRetry : {Undefined, "isRetryable", "never"}]

RetryInit ==
    /\ retryOptions \in RetryOptionSets
    /\ retryPc = "idle"
    /\ attempt = 0
    /\ lastError = NoError
    /\ opCalls = 0
    /\ waits = 0
    /\ failures = <<>>
    /\ retryResult = [kind |-> "pending", error |-> NoError]

RetryIdle ==
    /\ retryOptions = [maxRetries |-> [given |-> FALSE, value |-> 0],
                       shouldRetry |-> Undefined]
    /\ retryPc = "idle"
    /\ attempt = 0
    /\ lastError = NoError
    /\ opCalls = 0
    /\ waits = 0
    /\ failures = <<>>
    /\ retryResult = [kind |-> "pending", error |-> NoError]

(***************************************************************************)
(* ErrorHandler.trackErrorContext and getErrorStats (core/errorHandler.js).*)
(***************************************************************************)
MaxErrorContexts == 100

MaxRecentErrors == 10

NoCode == [kind |-> "undefined", num |-> 0, str |-> ""]

Keys == {errorContexts[i].key : i \in 1..Len(errorContexts)}

IndexOf(key) == CHOOSE i \in 1..Len(errorContexts) : errorContexts[i].key = key

\* `${error.name}:${error.message.substring(0, 50)}`
TrackerKey(error) == error.name \o ":" \o Substring0(error.message, 50)

\* Map.prototype.set on the ordered map: a stored key keeps its place
OrderedSet(m, key, data) ==
    IF \E i \in 1..Len(m) : m[i].key = key
    THEN [i \in 1..Len(m) |->
            IF m[i].key = key THEN [key |-> key, data |-> data] ELSE m[i]]
    ELSE Append(m, [key |-> key, data |-> data])

\* OrderedSet that moves a stored key to the end, as delete-then-set would
OrderedSetMovingToEnd(m, key, data) ==
    Append(SelectSeq(m, LAMBDA e : e.key # key), [key |-> key, data |-> data])

\* Evict without the removal
EvictNothing(m) == m

\* the size test and the removal of the first key in iteration order
Evict(m) == IF Len(m) > MaxErrorContexts THEN Tail(m) ELSE m

\* Stored that keeps the old data of a key already stored
StoredKeepingFirst(m, key, data) ==
    IF \E i \in 1..Len(m) : m[i].key = key THEN m
    ELSE Append(m, [key |-> key, data |-> data])

\* this.errorContexts.set(errorKey, contextData)
Stored(m, key, data) == OrderedSet(m, key, data)

trackErrorContext(error, context) ==
    LET errorKey == TrackerKey(error)
        contextData == [timestamp |-> now, context |-> context,
                        stack |-> error.stack]
        afterSet == Stored(errorContexts, errorKey, contextData)
        afterEvict == Evict(afterSet)
    IN  /\ errorContexts' = afterEvict
        /\ tracked' = tracked + 1
        /\ lastTracked' = [key |-> errorKey, data |-> contextData]
        /\ lastEvicted' =
                IF Len(afterEvict) < Len(afterSet) THEN afterSet[1].key
                ELSE lastEvicted
        /\ insertedAt' =
                [k \in {afterEvict[i].key : i \in 1..Len(afterEvict)} |->
                    IF k \in DOMAIN insertedAt
                    THEN insertedAt[k] ELSE tracked + 1]

\* key.split(':')[0]
SplitHead(key) ==
    LET colons == {i \in 1..Len(key) : SubSeq(key, i, i) = ":"}
    IN  IF colons = {} THEN key
        ELSE SubSeq(key, 1, (CHOOSE i \in colons : \A j \in colons : i <= j) - 1)

\* stats.totalErrors
totalErrors == Len(errorContexts)

\* stats.errorsByType
errorsByType ==
    LET n == Len(errorContexts)
        typeOf == [i \in 1..n |-> SplitHead(errorContexts[i].key)]
    IN  [t \in {typeOf[i] : i \in 1..n} |->
            Cardinality({i \in 1..n : typeOf[i] = t})]

\* stats.recentErrors: filled in iteration order while it holds fewer than 10
recentErrors ==
    [i \in 1..Min(MaxRecentErrors, Len(errorContexts)) |->
        [type |-> SplitHead(errorContexts[i].key),
         timestamp |-> errorContexts[i].data.timestamp,
         context |-> errorContexts[i].data.context]]

getErrorStats ==
    [totalErrors |-> totalErrors,
     errorsByType |-> errorsByType,
     recentErrors |-> recentErrors]

\* ContextsAfterStats that removes the entries it reported as recent
ContextsAfterStatsDraining(m) ==
    SubSeq(m, Min(MaxRecentErrors, Len(m)) + 1, Len(m))

\* this.errorContexts after getErrorStats: its two loops only read the map
ContextsAfterStats(m) == m

NoStats == [totalErrors |-> 0, errorsByType |-> EmptyMap, recentErrors |-> <<>>]

NoEntry == [key |-> "", data |-> [timestamp |-> 0, context |-> "", stack |-> 0]]

TrackerInit ==
    /\ errorContexts = <<>>
    /\ tracked = 0
    /\ insertedAt = EmptyMap
    /\ lastTracked = NoEntry
    /\ lastEvicted = ""
    /\ replays = 0
    /\ nextFresh = 1
    /\ stats = NoStats

(***************************************************************************)
(* ErrorHandler: the classifiers and the four handlers                     *)
(* (core/errorHandler.js).                                                 *)
(***************************************************************************)
\* error.code: a number, a string or absent; === compares kind and value
Num(n) == [kind |-> "number", num |-> n, str |-> ""]

Str(s) == [kind |-> "string", num |-> 0, str |-> s]

\* error.message is not a string: error.message.includes and
\* error.message.substring throw a TypeError
MessageMissing(error) == error.message = Undefined

\* determineErrorSeverity with its tests made in the opposite order
determineErrorSeverityLastMatch(error) ==
    IF \/ Includes(error.message, "Not found")
       \/ Includes(error.message, "Already exists")
       \/ error.code = Num(10008)
    THEN "medium"
    ELSE IF \/ Includes(error.message, "Invalid")
            \/ Includes(error.message, "Missing")
            \/ Includes(error.message, "Required")
            \/ error.code = Num(50013)
            \/ error.code = Num(50001)
    THEN "high"
    ELSE IF \/ Includes(error.message, "Database not initialized")
            \/ Includes(error.message, "Discord client not ready")
            \/ Includes(error.message, "Permission denied")
            \/ error.code = Str("ECONNREFUSED")
            \/ error.code = Str("ENOTFOUND")
    THEN "critical"
    ELSE "low"

\* determineErrorSeverity(error, context), for an error that has a message
determineErrorSeverity(error) ==
    IF \/ Includes(error.message, "Database not initialized")
       \/ Includes(error.message, "Discord client not ready")
       \/ Includes(error.message, "Permission denied")
       \/ error.code = Str("ECONNREFUSED")
       \/ error.code = Str("ENOTFOUND")
    THEN "critical"
    ELSE IF \/ Includes(error.message, "Invalid")
            \/ Includes(error.message, "Missing")
            \/ Includes(error.message, "Required")
            \/ error.code = Num(50013)
            \/ error.code = Num(50001)
    THEN "high"
    ELSE IF \/ Includes(error.message, "Not found")
            \/ Includes(error.message, "Already exists")
            \/ error.code = Num(10008)
    THEN "medium"
    ELSE "low"

\* determineDiscordErrorSeverity with 50013 among the high codes
determineDiscordErrorSeverityHigh50013(error) ==
    IF error.code \in {Num(50001), Num(50035), Num(50036)}
    THEN "critical"
    ELSE IF error.code \in {Num(50013), Num(10008), Num(10062), Num(10015)}
    THEN "high"
    ELSE IF error.code = Num(429)
    THEN "medium"
    ELSE "low"

\* determineDiscordErrorSeverity that reads the message of an error whose
\* code it does not know
determineDiscordErrorSeverityByMessage(error) ==
    IF error.code \in {Num(50001), Num(50013), Num(50035), Num(50036)}
    THEN "critical"
    ELSE IF error.code \in {Num(10008), Num(10062), Num(10015)}
    THEN "high"
    ELSE IF error.code = Num(429)
    THEN "medium"
    ELSE IF error.message = Undefined
    THEN "low"
    ELSE determineErrorSeverity(error)

\* determineDiscordErrorSeverity(error)
determineDiscordErrorSeverity(error) ==
    IF \/ error.code = Num(50001)
       \/ error.code = Num(50013)
       \/ error.code = Num(50035)
       \/ error.code = Num(50036)
    THEN "critical"
    ELSE IF \/ error.code = Num(10008)
            \/ error.code = Num(10062)
            \/ error.code = Num(10015)
    THEN "high"
    ELSE IF error.code = Num(429)
    THEN "medium"
    ELSE "low"

\* a call of logger[severity](message, context, error)
LogCall(severity, message, context) ==
    [severity |-> severity, message |-> message, context |-> context]

\* the logger after the calls of a handler, made in order
RECURSIVE LogAll(_, _)
LogAll(st, calls) ==
    IF calls = <<>> THEN st
    ELSE LogAll(LoggerBySeverity(st, Head(calls).severity,
                                 Head(calls).message, Head(calls).context),
                Tail(calls))

\* the catch block of a handler
HandlingFailed(domain) ==
    LogCall("critical",
            "Failed to handle " \o domain
                \o " error - error handling system broken",
            "error-handler")

\* the text sendUserErrorMessage chooses
userMessage(error) ==
    IF Includes(error.message, "Missing permissions") THEN "permissions"
    ELSE IF Includes(error.message, "Invalid") THEN "invalid"
    ELSE IF Includes(error.message, "Not found") THEN "not-found"
    ELSE IF error.code = Num(429) THEN "rate-limited"
    ELSE "generic"

NoHandled ==
    [handler |-> "", calls |-> <<>>, sent |-> FALSE, tracked |-> FALSE,
     returned |-> FALSE,
     error |-> [name |-> "", message |-> "", stack |-> 0,
                code |-> NoCode]]

NoSeverity == ""

NoWrapped == [kind |-> "", failure |-> NoHandled.error,
              error |-> NoHandled.error]

\* sendUserErrorMessage reaches interaction.reply or interaction.followUp:
\* error.message.includes and interaction.replied did not throw
ReplyCalled(interaction, error) ==
    /\ ~MessageMissing(error)
    /\ interaction.present

\* sendUserErrorMessage reaches interaction.reply or interaction.followUp
\* and the call resolves
UserMessageSent(interaction, error) ==
    /\ ReplyCalled(interaction, error)
    /\ interaction.replyOk

\* sendUserErrorMessage(interaction, error, context): the log calls it makes
sendUserErrorMessage(interaction, error) ==
    IF UserMessageSent(interaction, error) THEN <<>>
    ELSE <<LogCall("critical", "Failed to send user error message",
                   "error-handler")>>

\* what a handler does: its log calls in order, how many of them it makes
\* before its first await, what that await waits for ("none": the handler
\* has no await on this path; "turn": sendUserErrorMessage has ended in its
\* catch block; "reply": interaction.reply or followUp is pending), whether
\* the user message is sent, whether trackErrorContext completes, the value
\* the handler returns
Outcome(calls, first, awaited, sent, trackedIt, returned) ==
    [calls |-> calls, first |-> first, awaited |-> awaited, sent |-> sent,
     tracked |-> trackedIt, returned |-> returned]

\* handleCommandError(error, context)
handleCommandError(error, context) ==
    IF MessageMissing(error)
    THEN Outcome(<<HandlingFailed("command")>>, 1, "none",
                 FALSE, FALSE, FALSE)
    ELSE Outcome(
            <<LogCall(determineErrorSeverity(error),
                      "Command error in " \o context.commandName,
                      "command-execution")>>
                \o sendUserErrorMessage(context.interaction, error),
            IF ReplyCalled(context.interaction, error) THEN 1 ELSE 2,
            IF ReplyCalled(context.interaction, error) THEN "reply"
            ELSE "turn",
            UserMessageSent(context.interaction, error), TRUE, TRUE)

\* handleServiceError(error, context)
handleServiceError(error, context) ==
    IF MessageMissing(error)
    THEN Outcome(<<HandlingFailed("service")>>, 1, "none",
                 FALSE, FALSE, FALSE)
    ELSE Outcome(
            <<LogCall(determineErrorSeverity(error),
                      "Service error in " \o context.serviceName
                          \o " during " \o context.operation,
                      "service-execution")>>,
            1, "none", FALSE, TRUE, TRUE)

\* DatabaseSeverity taken from the generic classifier
DatabaseSeverityClassified(error) == determineErrorSeverity(error)

\* the severity handleDatabaseError logs with
DatabaseSeverity(error) == "critical"

\* handleDatabaseError(error, context)
handleDatabaseError(error, context) ==
    LET first ==
            LogCall(DatabaseSeverity(error),
                    "Database error during " \o context.operation
                        \o (IF Falsy(context.table) THEN ""
                            ELSE " on table " \o context.table),
                    "database")
    IN  IF MessageMissing(error)
        THEN Outcome(<<first, HandlingFailed("database")>>, 2, "none",
                     FALSE, FALSE, FALSE)
        ELSE Outcome(<<first>>, 1, "none", FALSE, TRUE, TRUE)

\* handleDiscordError(error, context)
handleDiscordError(error, context) ==
    LET interaction == context.interaction
        first ==
            LogCall(determineDiscordErrorSeverity(error),
                    "Discord API error during " \o context.operation,
                    "discord-api")
        feedback ==
            interaction.present /\ ~interaction.replied
                /\ ~interaction.deferred
        replyCalls ==
            IF feedback THEN sendUserErrorMessage(interaction, error)
            ELSE <<>>
        sent == feedback /\ UserMessageSent(interaction, error)
        calls ==
            <<first>> \o replyCalls
                \o (IF MessageMissing(error)
                    THEN <<HandlingFailed("Discord")>> ELSE <<>>)
    IN  IF ~feedback
        THEN Outcome(calls, Len(calls), "none", FALSE,
                     ~MessageMissing(error), ~MessageMissing(error))
        ELSE IF MessageMissing(error)
        THEN Outcome(calls, 2, "turn", FALSE, FALSE, FALSE)
        ELSE Outcome(calls, 1, "reply", sent, TRUE, TRUE)

\* the log calls of outcome from the one numbered from to the one numbered
\* to, made on the logger st
LogCalls(st, outcome, from, to) ==
    LogAll(st, SubSeq(outcome.calls, from, to))

\* trackErrorContext(error, context) when the handler reaches it and it
\* completes
TrackIf(reached, error, context) ==
    IF reached
    THEN /\ trackErrorContext(error, context)
         /\ UNCHANGED <<replays, nextFresh, stats>>
    ELSE UNCHANGED trackerVars

\* a handler is called with error by caller, the logger being st: the
\* handler runs to its first await, or to its end when it has none
Handle(handler, caller, error, context, outcome, st) ==
    /\ handled < MaxHandled
    /\ handled' = handled + 1
    /\ LoggerBecomes(LogCalls(st, outcome, 1, outcome.first))
    /\ TrackIf(outcome.awaited = "none" /\ outcome.tracked, error, context)
    /\ handlerCalls' = MapSet(handlerCalls, handled + 1,
            [handler |-> handler, caller |-> caller, error |-> error,
             context |-> context, outcome |-> outcome,
             made |-> outcome.first, delayed |-> FALSE,
             phase |-> CASE outcome.awaited = "none" -> "returned"
                         [] outcome.awaited = "turn" -> "resume"
                         [] outcome.awaited = "reply" -> "reply"])
    /\ UNCHANGED <<lastHandled, lastWrapped>>

\* time passes while the interaction.reply or followUp awaited by call id
\* is pending; a pending reply is seen to last one advance of the clock
ReplyPending(id, d) ==
    /\ id \in DOMAIN handlerCalls
    /\ handlerCalls[id].phase = "reply"
    /\ ~handlerCalls[id].delayed
    /\ Tick(d)
    /\ handlerCalls' = [handlerCalls EXCEPT ![id].delayed = TRUE]
    /\ UNCHANGED <<handled, lastHandled, lastWrapped>>
    /\ UNCHANGED trackerVars

\* the interaction.reply or followUp awaited by call id settles: when it
\* resolves the handler goes on to trackErrorContext and returns; when it
\* rejects the catch block of sendUserErrorMessage logs and the handler
\* resumes a turn later
ReplySettled(id) ==
    /\ id \in DOMAIN handlerCalls
    /\ handlerCalls[id].phase = "reply"
    /\ LET c == handlerCalls[id]
       IN  IF c.outcome.sent
           THEN /\ TrackIf(c.outcome.tracked, c.error, c.context)
                /\ handlerCalls' =
                        [handlerCalls EXCEPT ![id].phase = "returned"]
                /\ UNCHANGED loggerVars
           ELSE /\ LoggerBecomes(LogCalls(LoggerState, c.outcome,
                                          c.made + 1, c.made + 1))
                /\ handlerCalls' =
                        [handlerCalls EXCEPT ![id].phase = "resume",
                                             ![id].made = c.made + 1]
                /\ UNCHANGED trackerVars
    /\ UNCHANGED <<handled, lastHandled, lastWrapped>>

\* call id resumes after await this.sendUserErrorMessage: trackErrorContext,
\* then return true, or the catch block when trackErrorContext throws
Resumed(id) ==
    /\ id \in DOMAIN handlerCalls
    /\ handlerCalls[id].phase = "resume"
    /\ LET c == handlerCalls[id]
       IN  /\ LoggerBecomes(LogCalls(LoggerState, c.outcome, c.made + 1,
                                     Len(c.outcome.calls)))
           /\ TrackIf(c.outcome.tracked, c.error, c.context)
           /\ handlerCalls' =
                    [handlerCalls EXCEPT ![id].phase = "returned",
                                         ![id].made = Len(c.outcome.calls)]
    /\ UNCHANGED <<handled, lastHandled, lastWrapped>>

\* Rethrown with the error of a failed handler thrown in place of the
\* operation's
RethrownUnlessHandlingFailed(error, outcome) ==
    IF outcome.returned THEN error
    ELSE [name |-> "TypeError", message |-> "handling failed",
          code |-> NoCode, stack |-> 0]

\* throw error, after await errorHandler.handle*Error(error, context)
Rethrown(error, outcome) == error

\* how the function made by a wrapper ends once its handler has returned:
\* wrapServiceMethod, wrapDatabaseOperation and wrapDiscordApiCall throw
\* the error, wrapCommand returns
WrapperEnds(caller, error, outcome) ==
    CASE caller = "wrapper" ->
            [kind |-> "thrown", failure |-> error,
             error |-> Rethrown(error, outcome)]
      [] caller = "wrapCommand" ->
            [kind |-> "resolved", failure |-> error,
             error |-> NoWrapped.error]
      [] OTHER -> lastWrapped

\* the await of call id by its caller resumes with the value the handler
\* returned
Returned(id) ==
    /\ id \in DOMAIN handlerCalls
    /\ handlerCalls[id].phase = "returned"
    /\ LET c == handlerCalls[id]
       IN  /\ lastHandled' =
                    [handler |-> c.handler, error |-> c.error,
                     calls |-> c.outcome.calls, sent |-> c.outcome.sent,
                     tracked |-> c.outcome.tracked,
                     returned |-> c.outcome.returned]
           /\ lastWrapped' = WrapperEnds(c.caller, c.error, c.outcome)
    /\ handlerCalls' = [i \in DOMAIN handlerCalls \ {id} |-> handlerCalls[i]]
    /\ UNCHANGED handled
    /\ UNCHANGED <<loggerVars, trackerVars>>

\* a function made by wrapServiceMethod, wrapDatabaseOperation or
\* wrapDiscordApiCall is called and its operation rejects with error: the
\* catch block calls the handler
WrappedRejects(handler, error, context, outcome) ==
    Handle(handler, "wrapper", error, context, outcome, LoggerState)

\* the function made by wrapCommand is called and the command rejects with
\* error: logger.error(`Command ... failed after ...ms`, error), whose
\* options are the error, then the handler
wrapCommand(error, context) ==
    Handle("command", "wrapCommand", error, context.commandName,
           handleCommandError(error, context),
           LoggerError(LoggerState,
                       "Command " \o context.commandName \o " failed after",
                       [severity |-> Undefined, context |-> Undefined,
                        notifyAdmin |-> FALSE]))

\* the function made by createSafeAsync is called and its function rejects:
\* logger.medium, then return null
createSafeAsync(context) ==
    /\ handled < MaxHandled
    /\ handled' = handled + 1
    /\ LoggerBecomes(LoggerMedium(LoggerState,
            "Unhandled error in " \o DefaultParam(context, "unknown"),
            DefaultParam(context, "unknown")))
    /\ lastWrapped' = [NoWrapped EXCEPT !.kind = "null"]
    /\ UNCHANGED <<handlerCalls, lastHandled>>
    /\ UNCHANGED trackerVars

\* the inputs of the classifiers
ClassifierMessages ==
    {"Missing permissions", "Missing Permissions", "Missing Access",
     "Database not initialized", "Discord client not ready",
     "Permission denied", "Invalid Form Body", "Required option",
     "Unknown Message", "Not found", "Already exists",
     "connect ECONNREFUSED 127.0.0.1:5432", "You are being rate limited.",
     "Permission denied: Missing Access", "Invalid channel: Not found"}

ClassifierCodes ==
    {NoCode,
     Num(50001), Num(50013), Num(50035), Num(50036),
     Num(10008), Num(10062), Num(10015), Num(429), Num(40001),
     Str("ECONNREFUSED"), Str("ENOTFOUND"), Str("50013")}

ClassifierErrors ==
    [name : {"DiscordAPIError"}, message : ClassifierMessages,
     code : ClassifierCodes, stack : {0}]

\* the inputs of the handlers
HandlerErrors ==
    [name : {"Error"},
     message : {"Missing permissions", "Database not initialized",
                "Query failed", Undefined},
     code : {NoCode,
             Num(50013), Str("ECONNREFUSED")},
     stack : {handled + 1}]

\* the errors the wrapped operations reject with
WrappedErrors ==
    {e \in HandlerErrors :
        /\ e.message \in {"Database not initialized", "Query failed",
                          Undefined}
        /\ e.code \in {NoCode, Str("ECONNREFUSED")}}

NoInteraction == [present |-> FALSE, replied |-> FALSE, deferred |-> FALSE,
                  replyOk |-> FALSE]

Interactions ==
    {NoInteraction,
     [present |-> TRUE, replied |-> FALSE, deferred |-> FALSE, replyOk |-> TRUE],
     [present |-> TRUE, replied |-> FALSE, deferred |-> FALSE, replyOk |-> FALSE],
     [present |-> TRUE, replied |-> TRUE, deferred |-> FALSE, replyOk |-> TRUE],
     [present |-> TRUE, replied |-> FALSE, deferred |-> TRUE, replyOk |-> FALSE]}

CommandContexts == [commandName : {"ban"}, interaction : Interactions]

ServiceContexts == [serviceName : {"email"}, operation : {"sendNotification"}]

DatabaseContexts ==
    [operation : {"saveGuildSettings"}, table : {Undefined, "guild_settings"}]

DiscordContexts == [operation : {"sendMessage"}, interaction : Interactions]

\* the context argument of createSafeAsync, which defaults to 'unknown'
SafeContexts == {Undefined, "scheduler"}

HandlerInit ==
    /\ handled = 0
    /\ handlerCalls = EmptyMap
    /\ lastHandled = NoHandled
    /\ classifyInput = NoHandled.error
    /\ classified = [generic |-> NoSeverity, discord |-> NoSeverity]
    /\ lastWrapped = NoWrapped

(***************************************************************************)
(* HealthMonitor (core/healthMonitor.js).  A cycle awaits one probe at a   *)
(* time; cycles started by the timer may overlap.                          *)
(***************************************************************************)
CheckIndex(name) ==
    CHOOSE i \in 1..Len(healthChecks) : healthChecks[i].name = name

Registered == {healthChecks[i].name : i \in 1..Len(healthChecks)}

\* the entry registerHealthCheck stores for a check; an interval of 0 stands
\* for an option that is falsy (not given, or 0): options.interval || 60000
NewCheck(name, options) ==
    [name |-> name,
     critical |-> options.critical,
     interval |-> IF options.interval = 0 THEN 60000 ELSE options.interval,
     lastCheck |-> -1,
     lastResult |-> Undefined,
     consecutiveFailures |-> 0]

\* what a cycle holds while the check object it took from the iterator is
\* the one the registry holds
InRegistry == [name |-> "", critical |-> FALSE]

\* const [name, check] of this.healthChecks: the check object cycle id holds,
\* which is the entry of the registry unless the name was registered again
\* since the iterator gave it out
HeldCheck(id) ==
    IF cycles[id].held = InRegistry THEN healthChecks[cycles[id].pos]
    ELSE cycles[id].held

\* registerHealthCheck(name, checkFunction, options): Map.set appends the
\* entry of a new name and replaces that of a used name in its place by a
\* new object; the cycles that await the probe of the replaced object keep
\* the object, of which the loop body reads the flag (what it writes to the
\* object nothing reads again)
registerHealthCheck(name, options) ==
    /\ registrations' = registrations + 1
    /\ IF name \in Registered
       THEN /\ healthChecks' = [healthChecks EXCEPT ![CheckIndex(name)] =
                                    NewCheck(name, options)]
            /\ cycles' = [id \in DOMAIN cycles |->
                    IF /\ cycles[id].pos = CheckIndex(name)
                       /\ cycles[id].held = InRegistry
                    THEN [cycles[id] EXCEPT !.held =
                            [name |-> name,
                             critical |->
                                healthChecks[CheckIndex(name)].critical]]
                    ELSE cycles[id]]
       ELSE /\ healthChecks' = Append(healthChecks, NewCheck(name, options))
            /\ UNCHANGED cycles
    /\ UNCHANGED <<lastHealthReport, cyclesStarted, timerDue>>

\* NewResults that starts from the overall of the stored report
NewResultsFromLastReport(id) ==
    [cycle |-> id, timestamp |-> now,
     overall |-> IF lastHealthReport.overall = "" THEN "healthy"
                 ELSE lastHealthReport.overall,
     checks |-> <<>>, criticalIssues |-> <<>>, warnings |-> <<>>]

\* the results object a cycle starts with
NewResults(id) ==
    [cycle |-> id, timestamp |-> now, overall |-> "healthy",
     checks |-> <<>>, criticalIssues |-> <<>>, warnings |-> <<>>]

\* RaisesCritical without the test of the check's critical flag
RaisesCriticalByStatusOnly(check, status) == status = "critical"

\* the first test of the loop body: the check is a critical issue
RaisesCritical(check, status) ==
    \/ status = "critical"
    \/ (check.critical /\ status # "healthy")

\* AfterResult whose warning branch sets overall without testing that it is
\* still 'healthy'
AfterResultWarningOverrides(results, check, status) ==
    LET entry == [name |-> check.name, status |-> OrElse(status, "healthy"),
                  returned |-> status, threw |-> FALSE,
                  critical |-> check.critical]
        withEntry == [results EXCEPT !.checks = Append(@, entry)]
    IN  IF RaisesCritical(check, status)
        THEN [withEntry EXCEPT !.criticalIssues = Append(@, check.name),
                               !.overall = "critical"]
        ELSE IF status = "warning"
        THEN [withEntry EXCEPT !.warnings = Append(@, check.name),
                               !.overall = "warning"]
        ELSE withEntry

\* AfterResult whose warning branch pushes the warning only while overall is
\* still 'healthy'
AfterResultWarningWhileHealthy(results, check, status) ==
    LET entry == [name |-> check.name, status |-> OrElse(status, "healthy"),
                  returned |-> status, threw |-> FALSE,
                  critical |-> check.critical]
        withEntry == [results EXCEPT !.checks = Append(@, entry)]
    IN  IF RaisesCritical(check, status)
        THEN [withEntry EXCEPT !.criticalIssues = Append(@, check.name),
                               !.overall = "critical"]
        ELSE IF status = "warning" /\ results.overall = "healthy"
        THEN [withEntry EXCEPT !.warnings = Append(@, check.name),
                               !.overall = "warning"]
        ELSE withEntry

\* the results after the probe of check returned a result with status
AfterResult(results, check, status) ==
    LET entry == [name |-> check.name, status |-> OrElse(status, "healthy"),
                  returned |-> status, threw |-> FALSE,
                  critical |-> check.critical]
        withEntry == [results EXCEPT !.checks = Append(@, entry)]
    IN  IF RaisesCritical(check, status)
        THEN [withEntry EXCEPT !.criticalIssues = Append(@, check.name),
                               !.overall = "critical"]
        ELSE IF status = "warning"
        THEN [withEntry EXCEPT !.warnings = Append(@, check.name),
                               !.overall = IF @ = "healthy" THEN "warning"
                                           ELSE @]
        ELSE withEntry

\* the results after the probe of check threw: the catch block
AfterThrow(results, check) ==
    [results EXCEPT
        !.checks = Append(@, [name |-> check.name, status |-> "error",
                              returned |-> Undefined, threw |-> TRUE,
                              critical |-> check.critical]),
        !.criticalIssues = Append(@, check.name),
        !.overall = "critical"]

\* CheckAfterResult counting a result without a status as the 'healthy' that
\* the report records for it
CheckAfterResultByRecordedStatus(check, status) ==
    [check EXCEPT
        !.lastCheck = now,
        !.lastResult = status,
        !.consecutiveFailures =
            IF OrElse(status, "healthy") = "healthy" THEN 0 ELSE @ + 1]

\* the check after its probe returned a result with status
CheckAfterResult(check, status) ==
    [check EXCEPT
        !.lastCheck = now,
        !.lastResult = status,
        !.consecutiveFailures = IF status = "healthy" THEN 0 ELSE @ + 1]

\* a probe that has been invoked and whose promise is pending
Awaited == [phase |-> "awaited", status |-> Undefined, startTime |-> 0]

\* the loop goes on to the next check, whose probe is invoked and runs up
\* to its first await (invoked), or ends and the report is stored
Continue(id, results, invoked) ==
    IF cycles[id].pos < Len(healthChecks)
    THEN /\ cycles' = [cycles EXCEPT ![id] = [pos |-> cycles[id].pos + 1,
                                               held |-> InRegistry,
                                               results |-> results,
                                               probe |-> invoked]]
         /\ UNCHANGED lastHealthReport
    ELSE /\ cycles' = [c \in DOMAIN cycles \ {id} |-> cycles[c]]
         /\ lastHealthReport' = results

\* runHealthChecks() is called: the first probe is invoked and awaited
runHealthChecks(invoked) ==
    /\ cyclesStarted < MaxCycles
    /\ cyclesStarted' = cyclesStarted + 1
    /\ IF Len(healthChecks) = 0
       THEN /\ lastHealthReport' = NewResults(cyclesStarted + 1)
            /\ UNCHANGED cycles
       ELSE /\ cycles' = MapSet(cycles, cyclesStarted + 1,
                    [pos |-> 1, held |-> InRegistry,
                     results |-> NewResults(cyclesStarted + 1),
                     probe |-> invoked])
            /\ UNCHANGED lastHealthReport
    /\ UNCHANGED <<healthChecks, registrations>>

\* the probe awaited by cycle id has resolved with a result: the loop body,
\* which reads and updates the check object it holds, and the next probe
\* invoked
ProbeReturns(id, status, invoked) ==
    /\ id \in DOMAIN cycles
    /\ LET check == HeldCheck(id)
       IN  /\ healthChecks' =
                    IF cycles[id].held = InRegistry
                    THEN [healthChecks EXCEPT ![cycles[id].pos] =
                                CheckAfterResult(check, status)]
                    ELSE healthChecks
           /\ Continue(id, AfterResult(cycles[id].results, check, status),
                       invoked)
    /\ UNCHANGED <<registrations, cyclesStarted, timerDue>>
    /\ UNCHANGED loggerVars

\* runHealthChecks() rejects out of its catch block: the loop ends, the
\* results are dropped and no report is stored
Abandon(id) ==
    /\ cycles' = [c \in DOMAIN cycles \ {id} |-> cycles[c]]
    /\ UNCHANGED lastHealthReport

\* the probe awaited by cycle id rejects: logger.high and the catch block.
\* The catch block reads error.message, which throws a TypeError when the
\* probe rejected with undefined or null (nullish)
ProbeThrows(id, nullish, invoked) ==
    /\ id \in DOMAIN cycles
    /\ LET check == HeldCheck(id)
       IN  /\ LoggerBecomes(LoggerHigh(LoggerState,
                    "Health check " \o check.name \o " failed",
                    "health-monitor"))
           /\ IF nullish THEN Abandon(id)
              ELSE Continue(id, AfterThrow(cycles[id].results, check),
                            invoked)
    /\ UNCHANGED <<healthChecks, registrations, cyclesStarted, timerDue>>

\* this.criticalThresholds of the constructor, the field the probes read
criticalThresholds == [errorRate |-> 10]

\* database.queryOne / database.query: the catch block logs the failure of
\* the query before it rethrows
QueryFailed(st, phase) ==
    LoggerCritical(st, IF phase = "queryOne"
                       THEN "Database single query failed"
                       ELSE "Database query failed", "database")

\* checkDatabaseHealth() up to its first await: database.queryOne calls
\* getDatabase(), which throws when the database is not connected; the
\* probe then resolves with 'critical' without waiting for a query
DatabaseInvoked(connected) ==
    IF connected
    THEN [phase |-> "queryOne", status |-> Undefined, startTime |-> now]
    ELSE [phase |-> "settled", status |-> "critical", startTime |-> now]

\* the log call made while checkDatabaseHealth() is invoked
DatabaseInvokedLogs(st, connected) ==
    IF connected THEN st ELSE QueryFailed(st, "queryOne")

\* a probe without an await that waits: it resolves with the status it
\* computed when it was invoked
Settled(status) == [phase |-> "settled", status |-> status, startTime |-> now]

\* checkDatabaseHealth(): the two queries fail, or answer in responseTime ms
checkDatabaseHealth(db) ==
    IF db.fails THEN "critical"
    ELSE IF db.responseTime > 1000 THEN "warning"
    ELSE "healthy"

\* checkDiscordHealth(client): absent or not ready, or reading a cache throws
checkDiscordHealth(client) ==
    IF ~client.present \/ ~client.ready THEN "critical"
    ELSE IF client.throws THEN "critical"
    ELSE "healthy"

\* checkEmailHealth reporting 'critical' where the code reports 'warning'
checkEmailHealthCritical(configured, throws) ==
    IF throws THEN "critical"
    ELSE IF ~configured THEN "critical"
    ELSE "healthy"

\* checkEmailHealth(): emailService.isEmailConfigured() returns configured,
\* or throws
checkEmailHealth(configured, throws) ==
    IF throws THEN "warning"
    ELSE IF ~configured THEN "warning"
    ELSE "healthy"

\* checkErrorRates with the thresholds themselves counted as exceeded
checkErrorRatesFromThreshold(errorRate, throws) ==
    IF throws THEN "warning"
    ELSE IF errorRate >= criticalThresholds.errorRate THEN "critical"
    ELSE IF 2 * errorRate >= criticalThresholds.errorRate THEN "warning"
    ELSE "healthy"

\* checkErrorRates(): errorRate is getErrorStats().totalErrors, unless
\* reading the statistics throws
checkErrorRates(errorRate, throws) ==
    IF throws THEN "warning"
    ELSE IF errorRate > criticalThresholds.errorRate THEN "critical"
    ELSE IF 2 * errorRate > criticalThresholds.errorRate THEN "warning"
    ELSE "healthy"

\* this.healthReportInterval of the constructor
healthReportInterval == 5 * 60 * 1000

\* the runHealthChecks() call that initialize(client) awaits is the first
InitialCycle == 1

\* setInterval has not been called
NoTimer == -1

\* the four registrations of initialize(client), in their order
DefaultChecks ==
    <<NewCheck("database", [critical |-> TRUE, interval |-> 0]),
      NewCheck("discord", [critical |-> TRUE, interval |-> 0]),
      NewCheck("email", [critical |-> FALSE, interval |-> 0]),
      NewCheck("error-rates", [critical |-> TRUE, interval |-> 0])>>

\* initialize(client): the registrations, then the first runHealthChecks()
\* up to its first await, checkDatabaseHealth() invoked
initialize(invoked) ==
    /\ healthChecks = <<>>
    /\ cyclesStarted = 0
    /\ healthChecks' = DefaultChecks
    /\ registrations' = registrations + Len(DefaultChecks)
    /\ cyclesStarted' = InitialCycle
    /\ cycles' = MapSet(cycles, InitialCycle,
                        [pos |-> 1, held |-> InRegistry,
                         results |-> NewResults(InitialCycle),
                         probe |-> invoked])
    /\ UNCHANGED <<lastHealthReport, timerDue>>

\* initialize(client) resumes when the runHealthChecks() it awaits has
\* ended, and calls setInterval
InitializeResumed ==
    /\ healthChecks # <<>>
    /\ cyclesStarted >= InitialCycle
    /\ InitialCycle \notin DOMAIN cycles
    /\ timerDue = NoTimer
    /\ timerDue' = now + healthReportInterval
    /\ UNCHANGED <<healthChecks, registrations, lastHealthReport, cycles,
                   cyclesStarted>>

\* the time of the next call of the setInterval callback comes
TimerElapsed ==
    /\ timerDue # NoTimer
    /\ timerDue <= MaxClock
    /\ now < timerDue
    /\ now' = timerDue
    /\ UNCHANGED <<logLevelEnv, errorCounts, lastAdminNotification,
                   emailEnv, isConfigured, sinkCalls, notifyLog, lastLog,
                   inFlight, settled, raised>>
    /\ UNCHANGED healthVars

\* the setInterval callback is called: runHealthChecks() up to its first
\* await, and the timer is due again one interval after this call; the
\* logger.warn that follows a cycle that is not healthy changes no state
TimerFired(invoked) ==
    /\ timerDue # NoTimer
    /\ now >= timerDue
    /\ runHealthChecks(invoked)
    /\ timerDue' = now + healthReportInterval

\* the probe awaited by cycle id is the one registered under name
Awaits(id, name) ==
    /\ id \in DOMAIN cycles
    /\ healthChecks[cycles[id].pos].name = name

\* the built-in probe awaited by cycle id has resolved
Resolved(id, name) ==
    /\ Awaits(id, name)
    /\ cycles[id].probe.phase = "settled"

\* a query of checkDatabaseHealth() answers d milliseconds after it was
\* awaited: the second query follows the first, the result follows the second
QueryAnswered(id, d) ==
    /\ Awaits(id, "database")
    /\ cycles[id].probe.phase \in {"queryOne", "query"}
    /\ d = 0 \/ now + d <= MaxClock
    /\ now' = now + d
    /\ LET probe == cycles[id].probe
           responseTime == now + d - probe.startTime
       IN  cycles' = [cycles EXCEPT ![id].probe =
                IF probe.phase = "queryOne"
                THEN [probe EXCEPT !.phase = "query"]
                ELSE [probe EXCEPT
                        !.phase = "settled",
                        !.status = checkDatabaseHealth(
                            [fails |-> FALSE,
                             responseTime |-> responseTime])]]
    /\ UNCHANGED <<logLevelEnv, errorCounts, lastAdminNotification,
                   emailEnv, isConfigured, sinkCalls, notifyLog, lastLog,
                   inFlight, settled, raised>>
    /\ UNCHANGED <<healthChecks, registrations, lastHealthReport,
                   cyclesStarted, timerDue>>

\* a query of checkDatabaseHealth() fails: it is logged by the database
\* service and the catch block of the probe returns 'critical'
QueryRejected(id) ==
    /\ Awaits(id, "database")
    /\ cycles[id].probe.phase \in {"queryOne", "query"}
    /\ LoggerBecomes(QueryFailed(LoggerState, cycles[id].probe.phase))
    /\ cycles' = [cycles EXCEPT ![id].probe =
            [@ EXCEPT !.phase = "settled",
                      !.status = checkDatabaseHealth(
                            [fails |-> TRUE, responseTime |-> 0])]]
    /\ UNCHANGED <<healthChecks, registrations, lastHealthReport,
                   cyclesStarted, timerDue>>

\* what the built-in probes meet: the times the two queries take
QueryTimes(phase) == IF phase = "queryOne" THEN {0} ELSE {0, 1001}

DiscordClients == [present : BOOLEAN, ready : BOOLEAN, throws : BOOLEAN]

\* the inputs of the health monitor
CheckNames == {"database", "email"}

\* { critical: true } and { critical: false, interval: 1000 }
CheckOptions ==
    {[critical |-> TRUE, interval |-> 0],
     [critical |-> FALSE, interval |-> 1000]}

ProbeStatuses == {"healthy", "warning", "critical", "error", Undefined}

NoReport ==
    [cycle |-> 0, timestamp |-> 0, overall |-> "", checks |-> <<>>,
     criticalIssues |-> <<>>, warnings |-> <<>>]

HealthInit ==
    /\ healthChecks = <<>>
    /\ registrations = 0
    /\ lastHealthReport = NoReport
    /\ cycles = EmptyMap
    /\ cyclesStarted = 0
    /\ timerDue = NoTimer

(***************************************************************************)
(* The throttle under calls of critical and high: Spec.                    *)
(***************************************************************************)
Init == LoggerInit /\ RetryIdle /\ TrackerInit /\ HandlerInit /\ HealthInit

CallCritical ==
    /\ Len(notifyLog) < MaxAttempts
    /\ \E m \in LogMessages, c \in LogContexts :
            LoggerBecomes(LoggerCritical(LoggerState, m, c))
    /\ UNCHANGED <<retryVars, trackerVars, handlerVars, healthVars>>

CallHigh ==
    /\ Len(notifyLog) < MaxAttempts
    /\ \E m \in LogMessages :
            LoggerBecomes(LoggerHigh(LoggerState, m, Undefined))
    /\ UNCHANGED <<retryVars, trackerVars, handlerVars, healthVars>>

CallReset ==
    /\ Len(notifyLog) < MaxAttempts
    /\ LoggerBecomes(resetErrorTracking(LoggerState))
    /\ UNCHANGED <<retryVars, trackerVars, handlerVars, healthVars>>

Advance ==
    /\ \E d \in TickSteps : Tick(d)
    /\ UNCHANGED <<retryVars, trackerVars, handlerVars, healthVars>>

Next == CallCritical \/ CallHigh \/ CallReset \/ Advance

Spec == Init /\ [][Next]_vars

(***************************************************************************)
(* Every kind of log call: SpecLogger.                                     *)
(***************************************************************************)
LogError ==
    /\ Len(notifyLog) < MaxLogged
    /\ \E m \in LogMessages, o \in LogOptions :
            LoggerBecomes(LoggerError(LoggerState, m, o))
    /\ UNCHANGED <<retryVars, trackerVars, handlerVars, healthVars>>

LogCritical ==
    /\ Len(notifyLog) < MaxLogged
    /\ \E m \in LogMessages, c \in LogContexts :
            LoggerBecomes(LoggerCritical(LoggerState, m, c))
    /\ UNCHANGED <<retryVars, trackerVars, handlerVars, healthVars>>

LogHigh ==
    /\ Len(notifyLog) < MaxLogged
    /\ \E m \in LogMessages, c \in LogContexts :
            LoggerBecomes(LoggerHigh(LoggerState, m, c))
    /\ UNCHANGED <<retryVars, trackerVars, handlerVars, healthVars>>

LogMedium ==
    /\ Len(notifyLog) < MaxLogged
    /\ \E m \in LogMessages, c \in LogContexts :
            LoggerBecomes(LoggerMedium(LoggerState, m, c))
    /\ UNCHANGED <<retryVars, trackerVars, handlerVars, healthVars>>

LogLow ==
    /\ Len(notifyLog) < MaxLogged
    /\ \E m \in LogMessages, c \in LogContexts :
            LoggerBecomes(LoggerLow(LoggerState, m, c))
    /\ UNCHANGED <<retryVars, trackerVars, handlerVars, healthVars>>

NextLogger ==
    LogError \/ LogCritical \/ LogHigh \/ LogMedium \/ LogLow \/ Advance

SpecLogger == Init /\ [][NextLogger]_vars

(***************************************************************************)
(* Notify attempts while earlier dispatches are awaited: SpecDispatch.     *)
(***************************************************************************)
SinkSettles ==
    /\ \E id \in inFlight, o \in SinkOutcomes :
            LoggerBecomes(SinkSettled(LoggerState, id, o))
    /\ UNCHANGED <<retryVars, trackerVars, handlerVars, healthVars>>

NextDispatch == LogCritical \/ LogHigh \/ Advance \/ SinkSettles

SpecDispatch == Init /\ [][NextDispatch]_vars

(***************************************************************************)
(* One call of a function made by withRetry: SpecRetry.                    *)
(***************************************************************************)
\* the errors an attempt may throw: each attempt throws an error of its own
AttemptErrors == [id : {opCalls}, retryable : BOOLEAN]

Reject ==
    /\ \E e \in AttemptErrors : OperationRejects(e)
    /\ UNCHANGED <<loggerVars, trackerVars, handlerVars, healthVars>>

Resolve ==
    /\ OperationResolves
    /\ UNCHANGED <<loggerVars, trackerVars, handlerVars, healthVars>>

Call ==
    /\ RetryCall
    /\ UNCHANGED <<loggerVars, trackerVars, handlerVars, healthVars>>

Delay ==
    /\ DelayElapses
    /\ UNCHANGED <<loggerVars, trackerVars, handlerVars, healthVars>>

InitRetry ==
    LoggerIdle /\ RetryInit /\ TrackerInit /\ HandlerInit /\ HealthInit

NextRetry == Call \/ Resolve \/ Reject \/ Delay

SpecRetry == InitRetry /\ [][NextRetry]_vars

\* every awaited attempt settles and every delay timer fires
SpecRetryLive ==
    /\ InitRetry
    /\ [][NextRetry]_vars
    /\ WF_vars(Resolve \/ Reject)
    /\ WF_vars(Delay)

(***************************************************************************)
(* Records and statistics of the tracker: SpecTracker.  Unused messages    *)
(* fill the tracker; a message recorded before is offered, and the         *)
(* statistics are read, while the tracker holds at most one entry or is    *)
(* within one entry of its cap.  Records fall in the same millisecond      *)
(* unless the clock is seen to advance between them.                       *)
(***************************************************************************)
FreshMessage(i) == "Query " \o ToString(i) \o " failed"

\* messages that differ only after their first 50 characters
LongMessage(i) == Prefix50 \o "uild_" \o ToString(i)

NearEdge ==
    \/ Len(errorContexts) <= 1
    \/ Len(errorContexts) >= MaxErrorContexts - 1

\* a millisecond has passed since the last record (sampled while the tracker
\* holds at most one entry)
MillisecondPasses ==
    /\ Len(errorContexts) <= 1
    /\ tracked > 0
    /\ now = lastTracked.data.timestamp
    /\ now' = now + 1
    /\ UNCHANGED <<logLevelEnv, errorCounts, lastAdminNotification,
                   emailEnv, isConfigured, sinkCalls, notifyLog, lastLog,
                   inFlight, settled, raised>>
    /\ UNCHANGED <<retryVars, trackerVars, handlerVars, healthVars>>

TrackFresh ==
    /\ nextFresh <= MaxErrorContexts + MaxOverflow
    /\ trackErrorContext([name |-> "Error", message |-> FreshMessage(nextFresh),
                          code |-> NoCode, stack |-> tracked + 1], "query")
    /\ nextFresh' = nextFresh + 1
    /\ UNCHANGED loggerVars
    /\ UNCHANGED <<replays, stats>>
    /\ UNCHANGED <<retryVars, handlerVars, healthVars>>

TrackAgain ==
    /\ NearEdge
    /\ replays < MaxReplays
    /\ \E m \in {FreshMessage(1), LongMessage(1), LongMessage(2)} :
            trackErrorContext([name |-> "Error", message |-> m,
                               code |-> NoCode, stack |-> tracked + 1],
                              "insert")
    /\ replays' = replays + 1
    /\ UNCHANGED loggerVars
    /\ UNCHANGED <<nextFresh, stats>>
    /\ UNCHANGED <<retryVars, handlerVars, healthVars>>

GetErrorStats ==
    /\ NearEdge
    /\ stats # getErrorStats
    /\ stats' = getErrorStats
    /\ errorContexts' = ContextsAfterStats(errorContexts)
    /\ UNCHANGED <<tracked, insertedAt, lastTracked, lastEvicted, replays,
                   nextFresh>>
    /\ UNCHANGED <<loggerVars, retryVars, handlerVars, healthVars>>

InitTracker ==
    LoggerIdle /\ RetryIdle /\ TrackerInit /\ HandlerInit /\ HealthInit

NextTracker ==
    TrackFresh \/ TrackAgain \/ GetErrorStats \/ MillisecondPasses

SpecTracker == InitTracker /\ [][NextTracker]_vars

(***************************************************************************)
(* The two classifiers applied to one error: SpecClassify.                 *)
(***************************************************************************)
DetermineErrorSeverity ==
    /\ classified.generic = NoSeverity
    /\ classified' = [classified EXCEPT
                        !.generic = determineErrorSeverity(classifyInput)]
    /\ UNCHANGED <<handled, handlerCalls, lastHandled, classifyInput,
                   lastWrapped>>
    /\ UNCHANGED <<loggerVars, retryVars, trackerVars, healthVars>>

DetermineDiscordErrorSeverity ==
    /\ classified.discord = NoSeverity
    /\ classified' = [classified EXCEPT
                        !.discord = determineDiscordErrorSeverity(classifyInput)]
    /\ UNCHANGED <<handled, handlerCalls, lastHandled, classifyInput,
                   lastWrapped>>
    /\ UNCHANGED <<loggerVars, retryVars, trackerVars, healthVars>>

InitClassify ==
    /\ LoggerIdle /\ RetryIdle /\ TrackerInit /\ HealthInit
    /\ handled = 0
    /\ handlerCalls = EmptyMap
    /\ lastHandled = NoHandled
    /\ classifyInput \in ClassifierErrors
    /\ classified = [generic |-> NoSeverity, discord |-> NoSeverity]
    /\ lastWrapped = NoWrapped

NextClassify == DetermineErrorSeverity \/ DetermineDiscordErrorSeverity

SpecClassify == InitClassify /\ [][NextClassify]_vars

(***************************************************************************)
(* Errors reported to the four handlers: SpecHandlers.  A handler is       *)
(* called when no earlier call is still in progress.                       *)
(***************************************************************************)
HandleCommandError ==
    /\ DOMAIN handlerCalls = {}
    /\ \E e \in HandlerErrors, c \in CommandContexts :
            Handle("command", "caller", e, c.commandName,
                   handleCommandError(e, c), LoggerState)
    /\ UNCHANGED <<classifyInput, classified>>
    /\ UNCHANGED <<retryVars, healthVars>>

HandleServiceError ==
    /\ DOMAIN handlerCalls = {}
    /\ \E e \in HandlerErrors, c \in ServiceContexts :
            Handle("service", "caller", e, c.operation,
                   handleServiceError(e, c), LoggerState)
    /\ UNCHANGED <<classifyInput, classified>>
    /\ UNCHANGED <<retryVars, healthVars>>

HandleDatabaseError ==
    /\ DOMAIN handlerCalls = {}
    /\ \E e \in HandlerErrors, c \in DatabaseContexts :
            Handle("database", "caller", e, c.operation,
                   handleDatabaseError(e, c), LoggerState)
    /\ UNCHANGED <<classifyInput, classified>>
    /\ UNCHANGED <<retryVars, healthVars>>

HandleDiscordError ==
    /\ DOMAIN handlerCalls = {}
    /\ \E e \in HandlerErrors, c \in DiscordContexts :
            Handle("discord", "caller", e, c.operation,
                   handleDiscordError(e, c), LoggerState)
    /\ UNCHANGED <<classifyInput, classified>>
    /\ UNCHANGED <<retryVars, healthVars>>

\* the reply or followUp a handler awaits takes time
ReplyDelayed ==
    /\ \E id \in DOMAIN handlerCalls, d \in TickSteps : ReplyPending(id, d)
    /\ UNCHANGED <<classifyInput, classified>>
    /\ UNCHANGED <<retryVars, healthVars>>

\* the reply or followUp a handler awaits resolves or rejects
ReplySettles ==
    /\ \E id \in DOMAIN handlerCalls : ReplySettled(id)
    /\ UNCHANGED <<classifyInput, classified>>
    /\ UNCHANGED <<retryVars, healthVars>>

\* a handler resumes after sendUserErrorMessage has ended
HandlerResumes ==
    /\ \E id \in DOMAIN handlerCalls : Resumed(id)
    /\ UNCHANGED <<classifyInput, classified>>
    /\ UNCHANGED <<retryVars, healthVars>>

\* the caller of a handler resumes after the handler has returned
HandlerReturns ==
    /\ \E id \in DOMAIN handlerCalls : Returned(id)
    /\ UNCHANGED <<classifyInput, classified>>
    /\ UNCHANGED <<retryVars, healthVars>>

NextHandlers ==
    \/ HandleCommandError
    \/ HandleServiceError
    \/ HandleDatabaseError
    \/ HandleDiscordError
    \/ ReplySettles
    \/ HandlerResumes
    \/ HandlerReturns
    \/ ReplyDelayed

SpecHandlers == Init /\ [][NextHandlers]_vars

(***************************************************************************)
(* Calls of wrapped functions whose operation may fail, with the           *)
(* dispatches they start settling later: SpecWrappers.  A wrapped function *)
(* is called when no earlier call is still in its handler.                 *)
(***************************************************************************)
WrappedReturns ==
    /\ handled < MaxHandled
    /\ handled' = handled + 1
    /\ lastWrapped' = [NoWrapped EXCEPT !.kind = "returned"]
    /\ UNCHANGED <<handlerCalls, lastHandled, classifyInput, classified>>
    /\ UNCHANGED <<loggerVars, retryVars, trackerVars, healthVars>>

WrapCommand ==
    /\ DOMAIN handlerCalls = {}
    /\ \E e \in WrappedErrors, c \in CommandContexts :
            /\ c.interaction.present
            /\ wrapCommand(e, c)
    /\ UNCHANGED <<classifyInput, classified>>
    /\ UNCHANGED <<retryVars, healthVars>>

WrapServiceMethod ==
    /\ DOMAIN handlerCalls = {}
    /\ \E e \in WrappedErrors, c \in ServiceContexts :
            WrappedRejects("service", e, c.operation,
                           handleServiceError(e, c))
    /\ UNCHANGED <<classifyInput, classified>>
    /\ UNCHANGED <<retryVars, healthVars>>

WrapDatabaseOperation ==
    /\ DOMAIN handlerCalls = {}
    /\ \E e \in WrappedErrors, c \in DatabaseContexts :
            WrappedRejects("database", e, c.operation,
                           handleDatabaseError(e, c))
    /\ UNCHANGED <<classifyInput, classified>>
    /\ UNCHANGED <<retryVars, healthVars>>

WrapDiscordApiCall ==
    /\ DOMAIN handlerCalls = {}
    /\ \E e \in WrappedErrors, c \in DiscordContexts :
            WrappedRejects("discord", e, c.operation,
                           handleDiscordError(e, c))
    /\ UNCHANGED <<classifyInput, classified>>
    /\ UNCHANGED <<retryVars, healthVars>>

CreateSafeAsync ==
    /\ \E c \in SafeContexts : createSafeAsync(c)
    /\ UNCHANGED <<classifyInput, classified>>
    /\ UNCHANGED <<retryVars, healthVars>>

NextWrappers ==
    \/ WrappedReturns
    \/ WrapCommand
    \/ WrapServiceMethod
    \/ WrapDatabaseOperation
    \/ WrapDiscordApiCall
    \/ CreateSafeAsync
    \/ ReplyDelayed
    \/ ReplySettles
    \/ HandlerResumes
    \/ HandlerReturns
    \/ SinkSettles

SpecWrappers == Init /\ [][NextWrappers]_vars

(***************************************************************************)
(* Registration and cycles of the health monitor: SpecHealth.              *)
(***************************************************************************)
RegisterHealthCheck ==
    /\ registrations + cyclesStarted < MaxCalls
    /\ \E n \in CheckNames, o \in CheckOptions : registerHealthCheck(n, o)
    /\ UNCHANGED <<loggerVars, retryVars, trackerVars, handlerVars>>

RunHealthChecks ==
    /\ registrations + cyclesStarted < MaxCalls
    /\ runHealthChecks(Awaited)
    /\ UNCHANGED timerDue
    /\ UNCHANGED <<loggerVars, retryVars, trackerVars, handlerVars>>

ProbeResolves ==
    /\ \E id \in DOMAIN cycles, s \in ProbeStatuses :
            ProbeReturns(id, s, Awaited)
    /\ UNCHANGED <<retryVars, trackerVars, handlerVars>>

ProbeRejects ==
    /\ \E id \in DOMAIN cycles, nullish \in BOOLEAN :
            ProbeThrows(id, nullish, Awaited)
    /\ UNCHANGED <<retryVars, trackerVars, handlerVars>>

InitHealth ==
    /\ LoggerIdle /\ RetryIdle /\ TrackerInit /\ HandlerInit /\ HealthInit

NextHealth ==
    RegisterHealthCheck \/ RunHealthChecks \/ ProbeResolves \/ ProbeRejects

SpecHealth == InitHealth /\ [][NextHealth]_vars


(***************************************************************************)
(* The monitor as index.js starts it, with its built-in probes, while      *)
(* errors are recorded and the e-mail service is used: SpecMonitor.  A     *)
(* cycle is one step per turn of its loop: the step that takes the result  *)
(* of a probe also invokes the next probe, which computes its status then  *)
(* unless it awaits a query.  The clock moves when the timer of the        *)
(* monitor comes due and, up to MaxClock, while a query is awaited.        *)
(***************************************************************************)
\* healthMonitor.initialize(client)
Initialize ==
    /\ \E connected \in BOOLEAN :
            /\ initialize(DatabaseInvoked(connected))
            /\ LoggerBecomes(DatabaseInvokedLogs(LoggerState, connected))
    /\ UNCHANGED <<retryVars, trackerVars, handlerVars>>

\* the initial cycle has ended: initialize(client) goes on to setInterval
InitializeResumes ==
    /\ InitializeResumed
    /\ UNCHANGED <<loggerVars, retryVars, trackerVars, handlerVars>>

\* healthReportInterval has passed since the timer was set or fired
TimerElapses ==
    /\ TimerElapsed
    /\ UNCHANGED <<retryVars, trackerVars, handlerVars>>

\* the setInterval callback runs, whether or not earlier cycles have ended
TimerFires ==
    /\ \E connected \in BOOLEAN :
            /\ TimerFired(DatabaseInvoked(connected))
            /\ LoggerBecomes(DatabaseInvokedLogs(LoggerState, connected))
    /\ UNCHANGED <<retryVars, trackerVars, handlerVars>>

\* a query awaited by checkDatabaseHealth() answers
QueryAnswers ==
    /\ \E id \in DOMAIN cycles :
            \E d \in QueryTimes(cycles[id].probe.phase) : QueryAnswered(id, d)
    /\ UNCHANGED <<retryVars, trackerVars, handlerVars>>

\* a query awaited by checkDatabaseHealth() fails
QueryFails ==
    /\ \E id \in DOMAIN cycles : QueryRejected(id)
    /\ UNCHANGED <<retryVars, trackerVars, handlerVars>>

\* the result of checkDatabaseHealth() reaches the loop, which invokes
\* checkDiscordHealth(client)
DatabaseProbe ==
    /\ \E id \in DOMAIN cycles, client \in DiscordClients :
            /\ Resolved(id, "database")
            /\ ProbeReturns(id, cycles[id].probe.status,
                            Settled(checkDiscordHealth(client)))
    /\ UNCHANGED <<retryVars, trackerVars, handlerVars>>

\* the result of checkDiscordHealth(client) reaches the loop, which invokes
\* checkEmailHealth(); emailService.isEmailConfigured() has no statement
\* that throws
DiscordProbe ==
    /\ \E id \in DOMAIN cycles :
            /\ Resolved(id, "discord")
            /\ ProbeReturns(id, cycles[id].probe.status,
                            Settled(checkEmailHealth(isConfigured, FALSE)))
    /\ UNCHANGED <<retryVars, trackerVars, handlerVars>>

\* the result of checkEmailHealth() reaches the loop, which invokes
\* checkErrorRates(): the statistics are read now; getErrorStats() has no
\* statement that throws
EmailProbe ==
    /\ \E id \in DOMAIN cycles :
            /\ Resolved(id, "email")
            /\ ProbeReturns(id, cycles[id].probe.status,
                    Settled(checkErrorRates(getErrorStats.totalErrors,
                                            FALSE)))
    /\ errorContexts' = ContextsAfterStats(errorContexts)
    /\ UNCHANGED <<tracked, insertedAt, lastTracked, lastEvicted, replays,
                   nextFresh, stats>>
    /\ UNCHANGED <<retryVars, handlerVars>>

\* the result of checkErrorRates() reaches the loop, which ends
ErrorRatesProbe ==
    /\ \E id \in DOMAIN cycles :
            /\ Resolved(id, "error-rates")
            /\ ProbeReturns(id, cycles[id].probe.status, Awaited)
    /\ UNCHANGED <<retryVars, trackerVars, handlerVars>>

\* emailService.initialize(), called by index.js
EmailInitialize ==
    /\ LoggerBecomes(EmailServiceInitialize(LoggerState))
    /\ UNCHANGED <<retryVars, trackerVars, handlerVars, healthVars>>

\* a public sender of the e-mail service is called
SendNotification ==
    /\ sinkCalls < MaxSends
    /\ LoggerBecomes(sendNotification(LoggerState))
    /\ UNCHANGED <<retryVars, trackerVars, handlerVars, healthVars>>

\* the sendMail awaited for a public sender settles
SendSettles ==
    /\ \E id \in inFlight, o \in {"sent", "failed"} :
            /\ id < 0
            /\ LoggerBecomes(SendSettled(LoggerState, id, o))
    /\ UNCHANGED <<retryVars, trackerVars, handlerVars, healthVars>>

\* the tracker as k trackErrorContext calls for errors with messages of
\* their own leave it, made in the millisecond in which the process starts
TrackerAfter(k) ==
    LET entry(i) ==
            [key |-> TrackerKey([name |-> "Error",
                                 message |-> FreshMessage(i)]),
             data |-> [timestamp |-> 0, context |-> "query", stack |-> i]]
    IN  [errorContexts |-> [i \in 1..k |-> entry(i)],
         tracked |-> k,
         insertedAt |-> [key \in {entry(i).key : i \in 1..k} |->
                            CHOOSE i \in 1..k : entry(i).key = key],
         lastTracked |-> IF k = 0 THEN NoEntry ELSE entry(k),
         nextFresh |-> k + 1]

\* the errors recorded before the monitor starts: none, or as many as leave
\* the tracker at a threshold of checkErrorRates or at its cap
ErrorsBefore ==
    {0, criticalThresholds.errorRate \div 2, criticalThresholds.errorRate,
     MaxErrorContexts}

\* the number among ErrorsBefore that the process started from, the errors
\* recorded since being fewer than lie between two of these numbers
RecordedBefore ==
    CHOOSE k \in ErrorsBefore :
        /\ k <= tracked
        /\ \A j \in ErrorsBefore : j <= tracked => j <= k

\* a handler records an error with a message of its own, at any time
ErrorRecorded ==
    /\ tracked - RecordedBefore < MaxErrorRate
    /\ TrackFresh

\* a handler records an error whose fingerprint is that of the error last
\* recorded with a message of its own, at any time
ErrorRecordedAgain ==
    /\ tracked > 0
    /\ tracked - RecordedBefore < MaxErrorRate
    /\ trackErrorContext([name |-> "Error",
                          message |-> FreshMessage(nextFresh - 1),
                          code |-> NoCode, stack |-> tracked + 1], "insert")
    /\ replays' = replays + 1
    /\ UNCHANGED loggerVars
    /\ UNCHANGED <<nextFresh, stats>>
    /\ UNCHANGED <<retryVars, handlerVars, healthVars>>

InitMonitor ==
    /\ now = 0
    /\ logLevelEnv = Undefined
    /\ errorCounts = EmptyMap
    /\ lastAdminNotification = EmptyMap
    /\ emailEnv \in EmailEnvs
    /\ isConfigured = FALSE
    /\ sinkCalls = 0
    /\ notifyLog = <<>>
    /\ lastLog = NoLog
    /\ inFlight = {}
    /\ settled = <<>>
    /\ raised = 0
    /\ \E k \in ErrorsBefore :
            /\ errorContexts = TrackerAfter(k).errorContexts
            /\ tracked = TrackerAfter(k).tracked
            /\ insertedAt = TrackerAfter(k).insertedAt
            /\ lastTracked = TrackerAfter(k).lastTracked
            /\ nextFresh = TrackerAfter(k).nextFresh
    /\ lastEvicted = ""
    /\ replays = 0
    /\ stats = NoStats
    /\ RetryIdle /\ HandlerInit /\ HealthInit

NextMonitor ==
    \/ Initialize
    \/ InitializeResumes
    \/ TimerElapses
    \/ TimerFires
    \/ QueryAnswers
    \/ QueryFails
    \/ DatabaseProbe
    \/ DiscordProbe
    \/ EmailProbe
    \/ ErrorRatesProbe
    \/ EmailInitialize
    \/ ErrorRecorded
    \/ ErrorRecordedAgain
    \/ SinkSettles

SpecMonitor == InitMonitor /\ [][NextMonitor]_vars

(***************************************************************************)
(* The e-mail service used by index.js and by the logger: SpecEmail.       *)
(***************************************************************************)
NextEmail ==
    \/ EmailInitialize
    \/ SendNotification
    \/ SendSettles
    \/ LogHigh
    \/ SinkSettles

SpecEmail == Init /\ [][NextEmail]_vars
(***************************************************************************)
(* The tracker.                                                            *)
(***************************************************************************)
\* the stored key that was inserted first
Oldest ==
    CHOOSE k \in Keys : \A k2 \in Keys : insertedAt[k] <= insertedAt[k2]

\* C5: the tracker never holds more than 100 entries.
C5_TrackerBounded == Len(errorContexts) <= MaxErrorContexts

\* the tracker is full after more distinct fingerprints than its cap
C5_Witness ==
    /\ Len(errorContexts) = MaxErrorContexts
    /\ nextFresh > MaxErrorContexts + 1
    /\ lastEvicted # ""

\* C6: a record with a new fingerprint that arrives when the tracker holds
\* 100 entries removes exactly the entry inserted first (a later record of
\* a stored fingerprint does not move it); the new entry and the other 99
\* are stored afterwards.
C6_EvictsOldestInserted ==
    [][ ( /\ tracked' = tracked + 1
          /\ Len(errorContexts) = MaxErrorContexts
          /\ lastTracked'.key \notin Keys )
        => /\ Keys' = (Keys \ {Oldest}) \cup {lastTracked'.key}
           /\ Oldest \notin Keys'
           /\ Len(errorContexts') = MaxErrorContexts
           /\ lastEvicted' = Oldest ]_vars

\* the first fingerprint was recorded again when the tracker was full, and
\* was still the one removed by the next new fingerprint
C6_Witness ==
    /\ lastEvicted = TrackerKey([name |-> "Error", message |-> FreshMessage(1)])
    /\ replays >= 1
    /\ tracked = MaxErrorContexts + 2
    /\ nextFresh = MaxErrorContexts + 2
    /\ Len(errorContexts) = MaxErrorContexts
    /\ lastTracked.key \in Keys

\* C7: after any records, the fingerprint of the last record has exactly one
\* entry, which holds the data of that last record (so N records sharing a
\* fingerprint leave one entry with the data of the N-th), no fingerprint
\* has two entries, and totalErrors of getErrorStats is the number of
\* distinct fingerprints stored, whatever the number of record calls.
C7_OneEntryPerFingerprint ==
    /\ Cardinality(Keys) = Len(errorContexts)
    /\ tracked > 0 =>
            /\ Cardinality({i \in 1..Len(errorContexts) :
                    errorContexts[i].key = lastTracked.key}) = 1
            /\ errorContexts[IndexOf(lastTracked.key)].data = lastTracked.data
    /\ totalErrors = Cardinality(Keys)
    /\ totalErrors <= tracked

\* two records shared one fingerprint (their messages are equal up to the
\* 50th character): one entry, with the data of the second
C7_Witness ==
    /\ tracked = 2
    /\ Len(errorContexts) = 1
    /\ errorContexts[1].key = TrackerKey([name |-> "Error",
                                           message |-> LongMessage(1)])
    /\ errorContexts[1].data.stack = 2
    /\ errorContexts[1].data.timestamp = 1
    /\ stats.totalErrors = 1

\* C13: getErrorStats is a pure read: a call changes neither the entries of
\* the tracker nor their order, so records interleaved with stats calls
\* store and evict as they would without them.
C13_StatsIsPureRead ==
    [][ (stats' # stats) =>
            UNCHANGED <<errorContexts, insertedAt, tracked, lastTracked,
                        lastEvicted>> ]_vars

\* statistics were read when the tracker held 99 entries; two more new
\* fingerprints were then recorded and the second removed the oldest entry
C13_Witness ==
    /\ stats.totalErrors = MaxErrorContexts - 1
    /\ Len(errorContexts) = MaxErrorContexts
    /\ tracked = MaxErrorContexts + 1
    /\ lastEvicted = TrackerKey([name |-> "Error", message |-> FreshMessage(1)])

\* the entries getErrorStats would report if recentErrors held the entries
\* recorded last
LastRecorded ==
    LET n == Len(errorContexts)
        k == Min(MaxRecentErrors, n)
    IN  [i \in 1..k |->
            [type |-> SplitHead(errorContexts[n - k + i].key),
             timestamp |-> errorContexts[n - k + i].data.timestamp,
             context |-> errorContexts[n - k + i].data.context]]

\* C18 as stated: recentErrors of getErrorStats holds the min(10,
\* totalErrors) entries recorded last.
C18_RecentAreLastRecorded ==
    (stats # NoStats /\ stats = getErrorStats) =>
        /\ Len(stats.recentErrors) = Min(MaxRecentErrors, stats.totalErrors)
        /\ stats.recentErrors = LastRecorded

(***************************************************************************)
(* The retry wrapper.                                                      *)
(***************************************************************************)
AllAccepted == \A i \in 1..Len(failures) : shouldRetry(failures[i])

\* C3: when every attempt fails and shouldRetry accepts every error, the
\* operation is invoked exactly maxRetries + 1 times and the call rejects
\* with the error of the last attempt.
C3_AttemptsWhenAlwaysFailing ==
    (retryPc = "thrown" /\ AllAccepted) =>
        /\ opCalls = maxRetries + 1
        /\ Len(failures) = maxRetries + 1
        /\ retryResult = [kind |-> "thrown", error |-> failures[opCalls]]

\* maxRetries = 3 (the default): four attempts, the fourth error is thrown
C3_Witness ==
    /\ retryPc = "thrown" /\ AllAccepted
    /\ ~retryOptions.maxRetries.given
    /\ retryOptions.shouldRetry = "isRetryable"
    /\ opCalls = 4
    /\ retryResult.error.id = 4

\* the first attempt whose error ends the sequence: shouldRetry rejects it
\* or it is attempt number maxRetries + 1
FinalAttempt ==
    CHOOSE n \in 1..Len(failures) :
        /\ ~shouldRetry(failures[n]) \/ n = maxRetries + 1
        /\ \A m \in 1..(n - 1) :
                shouldRetry(failures[m]) /\ m # maxRetries + 1

\* C4: the error of the first attempt that shouldRetry rejects, or of
\* attempt number maxRetries + 1, is thrown at once: the operation is not
\* invoked again and no delay follows it, so the delays are the attempts
\* minus one; no delay is pending or started once the call has thrown.
C4_ImmediatePropagation ==
    /\ (retryPc = "thrown") =>
            /\ opCalls = FinalAttempt
            /\ Len(failures) = FinalAttempt
            /\ waits = FinalAttempt - 1
            /\ retryResult = [kind |-> "thrown",
                               error |-> failures[FinalAttempt]]
    /\ (retryPc \in {"operation", "returned"}) => waits = opCalls - 1
    /\ (retryPc = "delay") => waits = opCalls

\* shouldRetry rejects the first failure: one attempt, no delay
C4_Witness ==
    /\ retryPc = "thrown"
    /\ retryOptions.shouldRetry = "never"
    /\ maxRetries = 3
    /\ opCalls = 1 /\ waits = 0
    /\ retryResult.error.id = 1

(***************************************************************************)
(* The throttle.                                                           *)
(***************************************************************************)
Attempts == {i \in 1..Len(notifyLog) : notifyLog[i].kind = "attempt"}

NoResetBetween(i, j) == \A m \in i..j : notifyLog[m].kind # "reset"

\* attempt j follows the passing attempt i for the same fingerprint
Follows(i, j) ==
    /\ i \in Attempts /\ j \in Attempts /\ i < j
    /\ notifyLog[i].passed
    /\ notifyLog[j].key = notifyLog[i].key
    /\ NoResetBetween(i, j)

SinceAttempt(i, j) == notifyLog[j].at - notifyLog[i].at

\* C1: after an attempt for a fingerprint passed the cooldown check at time
\* t, every later attempt for that fingerprint less than the cooldown after
\* t is suppressed (nothing reaches the sink), and the first attempt at
\* least the cooldown after t passes and is handed to the sink (which takes
\* it when the e-mail service can be configured).  Attempts separated from
\* the passing one by resetErrorTracking are not compared.
C1_CooldownWindow ==
    \A i, j \in 1..Len(notifyLog) :
        Follows(i, j) =>
            /\ SinceAttempt(i, j) < adminNotificationCooldown =>
                    /\ ~notifyLog[j].passed
                    /\ ~notifyLog[j].sent
            /\ ( /\ SinceAttempt(i, j) >= adminNotificationCooldown
                 /\ \A m \in (i + 1)..(j - 1) :
                        Follows(i, m) =>
                            SinceAttempt(i, m) < adminNotificationCooldown )
                => /\ notifyLog[j].passed
                   /\ notifyLog[j].sent = (emailEnv = "usable")

\* a fingerprint passes, is suppressed inside the window and passes again
\* once the cooldown has elapsed, the sink taking both dispatches
C1_Witness ==
    \E i, j, k \in 1..Len(notifyLog) :
        /\ Follows(i, j) /\ Follows(i, k) /\ j < k
        /\ ~notifyLog[j].passed
        /\ SinceAttempt(i, j) = adminNotificationCooldown - 1
        /\ notifyLog[k].passed /\ notifyLog[k].sent
        /\ SinceAttempt(i, k) = adminNotificationCooldown
        /\ sinkCalls = 2

\* C10: a Logger.error call reaches the throttle check only if its severity
\* is high or critical or notifyAdmin is set; a call of any other severity
\* without notifyAdmin changes no throttle record, no occurrence counter
\* and dispatches nothing.  Every attempt the throttle sees carries a
\* severity of high or critical or the flag, and a step that adds no
\* attempt leaves the throttle and the sink alone; the call that
\* emailService.initialize() logs inside a passing attempt adds none.
C10_OnlyEligibleReachThrottle ==
    /\ [](lastLog.reached =>
            (lastLog.severity \in {"high", "critical"} \/ lastLog.notifyAdmin))
    /\ [](\A i \in Attempts :
            notifyLog[i].severity \in {"high", "critical"}
                \/ notifyLog[i].forced)
    /\ [][ Len(notifyLog') = Len(notifyLog)
           => UNCHANGED <<errorCounts, lastAdminNotification, sinkCalls,
                          notifyLog>> ]_vars
    /\ [][ Len(notifyLog') # Len(notifyLog)
           => /\ Len(notifyLog') = Len(notifyLog) + 1
              /\ SubSeq(notifyLog', 1, Len(notifyLog)) = notifyLog
              /\ lastLog'.reached
                    \/ ( /\ emailEnv = "unusable"
                         /\ notifyLog'[Len(notifyLog')].passed
                         /\ lastLog' = NoLog ) ]_vars
    /\ [][ ( /\ lastLog' # lastLog
             /\ lastLog'.severity \notin {"high", "critical"}
             /\ ~lastLog'.notifyAdmin
             /\ emailEnv # "unusable" )
           => UNCHANGED <<errorCounts, lastAdminNotification, sinkCalls,
                          notifyLog>> ]_vars

\* after a dispatched critical error, a medium error without the force flag
\* was logged and left the throttle as it was
C10_Witness ==
    /\ lastLog.severity = "medium" /\ ~lastLog.notifyAdmin
    /\ ~lastLog.reached
    /\ LevelEnabled("error")
    /\ Len(notifyLog) = 1 /\ notifyLog[1].severity = "critical"
    /\ sinkCalls = 1

(***************************************************************************)
(* The handlers and the classifiers.                                       *)
(***************************************************************************)
\* C8: every error reported to handleDatabaseError is logged with severity
\* critical (by Logger.critical, with the admin flag set), whatever its
\* message text or error code; so is every other log call of that handler,
\* which makes all of them in the step of the call.  Each of them is an
\* attempt of severity critical with the flag at the throttle when error
\* logging is enabled, and the log call made last in the step is one of
\* them unless emailService.initialize() failed and logged after it.
C8_DatabaseAlwaysCritical ==
    [][ \A id \in DOMAIN handlerCalls' \ DOMAIN handlerCalls :
            handlerCalls'[id].handler = "database" =>
                LET calls == handlerCalls'[id].outcome.calls
                IN  /\ Len(calls) >= 1
                    /\ handlerCalls'[id].made = Len(calls)
                    /\ calls[1].context = "database"
                    /\ \A i \in 1..Len(calls) :
                            calls[i].severity = "critical"
                    /\ emailEnv # "unusable" =>
                            /\ lastLog'.severity = "critical"
                            /\ lastLog'.notifyAdmin
                    /\ LevelEnabled("error") =>
                            /\ Len(notifyLog') = Len(notifyLog) + Len(calls)
                            /\ \A i \in (Len(notifyLog) + 1)..Len(notifyLog') :
                                    /\ notifyLog'[i].severity = "critical"
                                    /\ notifyLog'[i].forced
      ]_vars

\* a database error that the generic classifier rates low was reported
C8_Witness ==
    /\ lastHandled.handler = "database"
    /\ lastHandled.error.message = "Query failed"
    /\ lastHandled.error.code = NoCode
    /\ determineErrorSeverity(lastHandled.error) = "low"
    /\ lastHandled.calls[1].severity = "critical"
    /\ lastHandled.returned

\* the error of the scenario: code 50013 with message "Missing permissions"
MissingPermissions ==
    /\ classifyInput.code = Num(50013)
    /\ classifyInput.message = "Missing permissions"

\* C9 as stated: the error with code 50013 is classified high by
\* determineDiscordErrorSeverity and high by determineErrorSeverity, so the
\* two classifiers agree on it.
C9_BothPathsHigh ==
    /\ ( /\ classifyInput.code = Num(50013)
         /\ classified.discord # NoSeverity )
            => classified.discord = "high"
    /\ (MissingPermissions /\ classified.generic # NoSeverity)
            => classified.generic = "high"
    /\ ( /\ MissingPermissions
         /\ classified.discord # NoSeverity
         /\ classified.generic # NoSeverity )
            => classified.discord = classified.generic

\* C9, amended: an error with code 50013 is classified critical by
\* determineDiscordErrorSeverity whatever its message, and with message
\* "Missing permissions" it is classified high by determineErrorSeverity:
\* the two classifiers differ on that error.
C9_CriticalOnDiscordPath ==
    /\ ( /\ classifyInput.code = Num(50013)
         /\ classified.discord # NoSeverity )
            => classified.discord = "critical"
    /\ (MissingPermissions /\ classified.generic # NoSeverity)
            => classified.generic = "high"
    /\ ( /\ MissingPermissions
         /\ classified.discord # NoSeverity
         /\ classified.generic # NoSeverity )
            => classified.discord # classified.generic

\* both classifiers were applied to the error of the scenario
C9_Witness ==
    /\ MissingPermissions
    /\ classified.discord = "critical"
    /\ classified.generic = "high"

\* C16 as stated: every error reported to one of the four handlers has
\* been recorded in the tracker when the handler returns.
C16_EveryReportedErrorTracked ==
    (lastHandled.handler # "") =>
        /\ lastHandled.tracked
        /\ lastTracked.key \in Keys
        /\ lastTracked.data.stack = lastHandled.error.stack

(***************************************************************************)
(* The health monitor.                                                     *)
(***************************************************************************)
\* the results of cycle id after this step
ResultsAfter(id) ==
    IF id \in DOMAIN cycles' THEN cycles'[id].results ELSE lastHealthReport'

\* in this step the probe awaited by cycle id threw
ProbeThrewIn(id) ==
    /\ ResultsAfter(id).cycle = id
    /\ Len(ResultsAfter(id).checks) = cycles[id].pos
    /\ Len(cycles[id].results.checks) = cycles[id].pos - 1
    /\ ResultsAfter(id).checks[cycles[id].pos].threw

\* in this step the probe awaited by cycle id returned a result
ProbeReturnedIn(id) ==
    /\ ResultsAfter(id).cycle = id
    /\ Len(ResultsAfter(id).checks) = cycles[id].pos
    /\ Len(cycles[id].results.checks) = cycles[id].pos - 1
    /\ ~ResultsAfter(id).checks[cycles[id].pos].threw

\* the results objects: the stored report and those of the cycles under way
AllResults ==
    {r \in {lastHealthReport} \cup {cycles[id].results : id \in DOMAIN cycles} :
        r.cycle # 0}

Entries(r) == {r.checks[i] : i \in 1..Len(r.checks)}

\* check.critical as the loop body read it for the entry: the flag of the
\* check object the cycle held
Flagged(e) == e.critical

\* the overall that the outcomes of the checks call for
ExpectedOverall(r) ==
    IF \E e \in Entries(r) :
            \/ e.threw
            \/ e.returned = "critical"
            \/ (Flagged(e) /\ e.returned # "healthy")
    THEN "critical"
    ELSE IF \E e \in Entries(r) : e.returned = "warning"
    THEN "warning"
    ELSE "healthy"

\* C2: in every cycle, overall is critical iff some check returned status
\* critical, or threw (its entry then has status error), or is flagged
\* critical and returned a status other than healthy (a result without a
\* status included); otherwise it is warning iff some check returned
\* warning; otherwise it is healthy.
\* A check is flagged critical when the check object the loop holds for
\* it, the one registered under its name when the loop reached it, has
\* critical set.
C2_OverallAggregation ==
    /\ [](\A r \in AllResults :
            /\ r.overall = ExpectedOverall(r)
            /\ \A e \in Entries(r) : e.threw => e.status = "error")
    /\ [][ \A id \in DOMAIN cycles :
            (ProbeReturnedIn(id) \/ ProbeThrewIn(id))
                => Flagged(ResultsAfter(id).checks[cycles[id].pos])
                        = HeldCheck(id).critical ]_vars

\* a check flagged critical returned warning and a check not flagged
\* returned critical: the stored report is critical
C2_Witness ==
    /\ lastHealthReport.overall = "critical"
    /\ Len(lastHealthReport.checks) = 2
    /\ \E e1, e2 \in Entries(lastHealthReport) :
            /\ Flagged(e1) /\ e1.returned = "warning"
            /\ ~Flagged(e2) /\ e2.returned = "critical"

(***************************************************************************)
(* Dispatches that are awaited.                                            *)
(***************************************************************************)
LastSettled == settled[Len(settled)]

\* C11: when the awaited sendNotification returns false or throws, nothing
\* escapes handleAdminNotification (so nothing reaches the logging call
\* that started it, which does not await it), and the occurrence is not
\* handed to the sink again: each attempt is handed over at most once and
\* settles at most once, and the failing settlement changes neither the
\* sink calls nor the throttle.
C11_SinkFailureContained ==
    /\ [](raised = 0)
    /\ [](sinkCalls = Cardinality({i \in Attempts : notifyLog[i].sent}))
    /\ [](\A i, j \in 1..Len(settled) :
            i # j => settled[i].id # settled[j].id)
    /\ [][ ( /\ Len(settled') = Len(settled) + 1
             /\ LastSettled'.outcome \in {"failed", "throws"} )
           => /\ UNCHANGED <<sinkCalls, notifyLog, errorCounts,
                             lastAdminNotification, raised>>
              /\ inFlight' = inFlight \ {LastSettled'.id} ]_vars

\* one dispatch ended with the sink throwing and another with the sink
\* returning false; nothing is awaited any more
C11_Witness ==
    /\ \E i, j \in 1..Len(settled) :
            settled[i].outcome = "throws" /\ settled[j].outcome = "failed"
    /\ sinkCalls = 2
    /\ inFlight = {}
    /\ raised = 0

\* C19: the cooldown check and the update of the throttle record are one
\* step, taken before the dispatch is awaited: while a dispatch is awaited
\* its fingerprint already has the record of that attempt, and two attempts
\* for one fingerprint that both pass are at least the cooldown apart.
C19_CheckAndRecordAtomic ==
    /\ \A i \in inFlight :
            /\ notifyLog[i].key \in DOMAIN lastAdminNotification
            /\ lastAdminNotification[notifyLog[i].key] >= notifyLog[i].at
    /\ \A i, j \in 1..Len(notifyLog) :
            (Follows(i, j) /\ notifyLog[j].passed)
                => SinceAttempt(i, j) >= adminNotificationCooldown

\* a second attempt for a fingerprint arrived at the same instant as the
\* first, whose dispatch was still awaited, and was suppressed
C19_Witness ==
    \E i \in inFlight : \E j \in Attempts :
        /\ Follows(i, j)
        /\ SinceAttempt(i, j) = 0
        /\ ~notifyLog[j].passed
        /\ sinkCalls = 1

\* the attempts for a fingerprint that has no throttle record: none before
\* them passed for that fingerprint since the last resetErrorTracking
WithoutRecord == {j \in Attempts : ~\E i \in 1..(j - 1) : Follows(i, j)}

\* C20 as stated: an attempt for a fingerprint without a throttle record
\* passes the cooldown check at every value of the clock.
C20_AbsentRecordAlwaysPasses ==
    \A j \in WithoutRecord : notifyLog[j].passed

(***************************************************************************)
(* The wrappers.                                                           *)
(***************************************************************************)
\* C12: when the operation of a function made by wrapServiceMethod,
\* wrapDatabaseOperation or wrapDiscordApiCall rejects with an error, the
\* call rejects with that same error, also when the handler returned false
\* and whatever happens to the dispatches the handler started.
C12_OriginalErrorRethrown ==
    (lastWrapped.kind = "thrown") =>
        /\ lastWrapped.error = lastWrapped.failure
        /\ lastWrapped.failure = lastHandled.error

\* the handler failed (it returned false for an error without a message)
\* and the sink threw for the dispatch it started; the call still rejected
\* with the operation's error
C12_Witness ==
    /\ lastWrapped.kind = "thrown"
    /\ ~lastHandled.returned
    /\ lastHandled.handler = "service"
    /\ MessageMissing(lastWrapped.error)
    /\ lastWrapped.error.code = Str("ECONNREFUSED")
    /\ \E i \in 1..Len(settled) : settled[i].outcome = "throws"

\* C14 as stated: when a probe throws, the entry of its check in the report
\* has status error and the consecutiveFailures of the check grow by 1.
C14_ThrowCountsAsFailure ==
    [][ \A id \in DOMAIN cycles :
            ProbeThrewIn(id) =>
                /\ ResultsAfter(id).checks[cycles[id].pos].status = "error"
                /\ healthChecks'[cycles[id].pos].consecutiveFailures =
                        healthChecks[cycles[id].pos].consecutiveFailures + 1
      ]_vars

\* severities in their order
Rank(status) ==
    CASE status = "healthy" -> 0
      [] status = "warning" -> 1
      [] status \in {"critical", "error"} -> 2

MaxRank(ranks) ==
    IF ranks = {} THEN 0 ELSE CHOOSE m \in ranks : \A n \in ranks : n <= m

\* what an entry contributes to overall: critical when its probe threw,
\* returned critical, or belongs to a check flagged critical and returned
\* anything but healthy; warning when it returned warning
EffectiveRank(e) ==
    IF e.threw \/ e.returned = "critical"
            \/ (Flagged(e) /\ e.returned # "healthy")
    THEN 2
    ELSE IF e.returned = "warning" THEN 1 ELSE 0

\* C17 as stated: in every stored report, overall is the maximum severity
\* among the statuses recorded for the checks in that report (error counted
\* as critical).
C17_OverallIsMaxRecorded ==
    (lastHealthReport.cycle # 0) =>
        Rank(lastHealthReport.overall) =
            MaxRank({Rank(e.status) : e \in Entries(lastHealthReport)})

\* C17, amended: overall is the maximum of what the entries of the same
\* report contribute, where a check flagged critical that returned anything
\* but healthy contributes critical whatever status is recorded for it, and
\* a returned status that is none of healthy, warning, critical contributes
\* nothing for a check that is not flagged; results with the same entries
\* have the same overall whatever the stored report was.
C17_OverallIsMaxContributed ==
    /\ \A r \in AllResults :
            Rank(r.overall) = MaxRank({EffectiveRank(e) : e \in Entries(r)})
    /\ \A r1, r2 \in AllResults :
            (r1.checks = r2.checks) => (r1.overall = r2.overall)

\* the stored report is critical although the statuses recorded in it are
\* warning and healthy: the warning is that of a check flagged critical;
\* the cycle before it is still under way with another overall
C17_Witness ==
    /\ lastHealthReport.cycle = 2
    /\ lastHealthReport.overall = "critical"
    /\ Len(lastHealthReport.checks) = 2
    /\ \A e \in Entries(lastHealthReport) : e.status \in {"warning", "healthy"}
    /\ \E e \in Entries(lastHealthReport) :
            Flagged(e) /\ e.returned = "warning"
    /\ 1 \in DOMAIN cycles
    /\ cycles[1].results.overall = "warning"

\* the entries of a report whose probe is not the one registered under name
OtherEntries(report, name) ==
    {e \in Entries(report) : e.name # name}

\* the entries of a report whose probe is the one registered under name
EntriesOf(report, name) ==
    {e \in Entries(report) : e.name = name}

\* C15: checkEmailHealth reports 'warning', never 'critical', when the sink
\* is unconfigured or its check throws, and with the default registration a
\* published report in which the sink's probe returned 'warning' and every
\* other probe returned 'healthy' has overall 'warning', not 'critical'.
C15_UnconfiguredSinkOnlyWarns ==
    /\ \A configured \in BOOLEAN, throws \in BOOLEAN :
            (~configured \/ throws)
                => checkEmailHealth(configured, throws) = "warning"
    /\ \A e \in EntriesOf(lastHealthReport, "email") :
            e.returned \in {"healthy", "warning"}
    /\ ( /\ lastHealthReport # NoReport
         /\ \A e \in EntriesOf(lastHealthReport, "email") :
                e.returned = "warning"
         /\ \A e \in OtherEntries(lastHealthReport, "email") :
                e.returned = "healthy" )
       => lastHealthReport.overall = "warning"

\* the report of a cycle started by the timer, one interval after the
\* initial cycle, holds the four default probes: the sink's probe returned
\* 'warning' and the three others 'healthy'
C15_Witness ==
    /\ healthChecks # <<>>
    /\ lastHealthReport.cycle > InitialCycle
    /\ lastHealthReport.timestamp >= healthReportInterval
    /\ Len(lastHealthReport.checks) = 4
    /\ \E e \in EntriesOf(lastHealthReport, "email") : e.returned = "warning"
    /\ \A e \in OtherEntries(lastHealthReport, "email") :
            e.returned = "healthy"
    /\ lastHealthReport.overall = "warning"

(***************************************************************************)
(* The throttle records over time.                                         *)
(***************************************************************************)
LastAttempt == notifyLog[Len(notifyLog)]

\* C21: the last-notified timestamp of a fingerprint's throttle record never
\* decreases while the record exists; a notify attempt that is suppressed
\* leaves every record unchanged, and one that passes sets the record of its
\* fingerprint to the current time and leaves the others unchanged.
C21_TimestampOnlyMovesForward ==
    [][ /\ \A k \in DOMAIN lastAdminNotification
                    \cap DOMAIN lastAdminNotification' :
                lastAdminNotification'[k] >= lastAdminNotification[k]
        /\ ( /\ Len(notifyLog') = Len(notifyLog) + 1
             /\ LastAttempt'.kind = "attempt" )
           => /\ LastAttempt'.at = now
              /\ lastAdminNotification' =
                    IF LastAttempt'.passed
                    THEN MapSet(lastAdminNotification, LastAttempt'.key, now)
                    ELSE lastAdminNotification ]_vars

\* the record of a fingerprint was set by a first passing attempt, kept by
\* a suppressed one and moved forward by a second passing attempt
C21_Witness ==
    \E i, j, k \in Attempts :
        /\ Follows(i, j) /\ Follows(j, k) /\ Follows(i, k)
        /\ notifyLog[j].passed /\ ~notifyLog[k].passed
        /\ k = Len(notifyLog)
        /\ notifyLog[j].at > notifyLog[i].at
        /\ lastAdminNotification[notifyLog[k].key] = notifyLog[j].at

\* the dispatch of the passing attempt i was lost: the sink was not
\* configured, or sendNotification returned false or threw
Lost(i) ==
    \/ ~notifyLog[i].sent
    \/ \E s \in 1..Len(settled) :
            /\ settled[s].id = i
            /\ settled[s].outcome \in {"failed", "throws"}

\* C22: every attempt that passes the cooldown check leaves a throttle record
\* for its fingerprint, whether or not the sink delivers; an attempt for the
\* same fingerprint less than the cooldown after a passing attempt whose
\* dispatch was lost is suppressed.
C22_LostDispatchStillThrottles ==
    /\ \A i \in Attempts :
            notifyLog[i].passed =>
                /\ notifyLog[i].key \in DOMAIN lastAdminNotification
                /\ lastAdminNotification[notifyLog[i].key] >= notifyLog[i].at
    /\ \A i, j \in 1..Len(notifyLog) :
            ( /\ Follows(i, j)
              /\ Lost(i)
              /\ SinceAttempt(i, j) < adminNotificationCooldown )
                => /\ ~notifyLog[j].passed
                   /\ ~notifyLog[j].sent

\* sendNotification returned false for a passing attempt, which was logged,
\* and the attempt logged after that for the same fingerprint, inside the
\* cooldown, was suppressed
C22_Witness ==
    \E i, j \in Attempts :
        /\ Follows(i, j)
        /\ settled = <<[id |-> i, outcome |-> "failed"]>>
        /\ j = Len(notifyLog)
        /\ lastLog.reached /\ lastLog.severity # Undefined
        /\ SinceAttempt(i, j) < adminNotificationCooldown
        /\ ~notifyLog[j].passed
        /\ sinkCalls = 1

(***************************************************************************)
(* The cycles of the health monitor.                                       *)
(***************************************************************************)
\* C23: when a probe returns a result, the consecutiveFailures of its check
\* become 0 if the returned status is 'healthy' and grow by exactly 1 for
\* every other returned status, a missing one included; so they are reset
\* if and only if the probe returned 'healthy'.  The check is the object
\* the loop holds: when its name was registered again while the probe was
\* awaited, the registry holds another object, which the returning probe
\* leaves as it is.
C23_ResetOnlyOnHealthy ==
    [][ \A id \in DOMAIN cycles :
            ProbeReturnedIn(id) =>
                LET returned ==
                        ResultsAfter(id).checks[cycles[id].pos].returned
                    before ==
                        healthChecks[cycles[id].pos].consecutiveFailures
                    after ==
                        healthChecks'[cycles[id].pos].consecutiveFailures
                IN  IF cycles[id].held = InRegistry
                    THEN /\ healthChecks'[cycles[id].pos].lastResult = returned
                         /\ after = IF returned = "healthy" THEN 0
                                    ELSE before + 1
                         /\ (after = 0) <=> (returned = "healthy")
                    ELSE healthChecks' = healthChecks
      ]_vars

\* a check failed twice in a row, the second time by returning a result
\* without a status, while another check returned 'healthy' and stands at 0
C23_Witness ==
    \E a, b \in 1..Len(healthChecks) :
        /\ healthChecks[a].consecutiveFailures = 2
        /\ healthChecks[a].lastResult = Undefined
        /\ healthChecks[b].consecutiveFailures = 0
        /\ healthChecks[b].lastResult = "healthy"
        /\ lastHealthReport.cycle = 2

\* the names of the checks in the order of the registry
CheckNamesInOrder == [i \in 1..Len(healthChecks) |-> healthChecks[i].name]

\* the names of the entries of a results object, in their order
EntryNames(results) ==
    [i \in 1..Len(results.checks) |-> results.checks[i].name]

\* C24 as stated: a cycle invokes the registered probes one after the other,
\* each once and whatever its interval: while it runs its results hold one
\* entry for each probe before the awaited one, a thrown probe included; a
\* probe that throws does not keep the remaining probes from running, so a
\* cycle ends only after its last probe and by storing its report; and the
\* results are stored as lastHealthReport only when the cycle has ended, with
\* exactly one entry per registered check in registration order.
C24_OneEntryPerCheckNoPartialReport ==
    /\ [](\A id \in DOMAIN cycles :
            /\ cycles[id].pos \in 1..Len(healthChecks)
            /\ EntryNames(cycles[id].results)
                    = SubSeq(CheckNamesInOrder, 1, cycles[id].pos - 1)
            /\ lastHealthReport.cycle # id)
    /\ [][ lastHealthReport' # lastHealthReport =>
                /\ lastHealthReport'.cycle \in
                        (DOMAIN cycles \cup {cyclesStarted'}) \ DOMAIN cycles'
                /\ EntryNames(lastHealthReport') = CheckNamesInOrder'
                /\ Len(healthChecks') = Len(healthChecks)
      ]_vars
    /\ [][ \A id \in DOMAIN cycles \ DOMAIN cycles' :
                /\ cycles[id].pos = Len(healthChecks)
                /\ lastHealthReport'.cycle = id
      ]_vars

\* the part of C24 that holds: no partial report is ever stored, and a
\* stored report has exactly one entry per registered check
C24_NoPartialReport ==
    /\ [](\A id \in DOMAIN cycles :
            /\ cycles[id].pos \in 1..Len(healthChecks)
            /\ EntryNames(cycles[id].results)
                    = SubSeq(CheckNamesInOrder, 1, cycles[id].pos - 1)
            /\ lastHealthReport.cycle # id)
    /\ [][ lastHealthReport' # lastHealthReport =>
                /\ lastHealthReport'.cycle \in
                        (DOMAIN cycles \cup {cyclesStarted'}) \ DOMAIN cycles'
                /\ EntryNames(lastHealthReport') = CheckNamesInOrder'
                /\ Len(healthChecks') = Len(healthChecks)
      ]_vars

\* the cycles that have run to their end
Completed == (1..cyclesStarted) \ DOMAIN cycles

\* C25 as stated: the stored report is that of the most recently started
\* cycle among those that have completed, also when cycles overlap.
C25_RetainedIsLatestCompleted ==
    Completed # {} =>
        /\ lastHealthReport.cycle \in Completed
        /\ \A c \in Completed : c <= lastHealthReport.cycle

\* in this step cycle id invokes checkErrorRates(), which reads the
\* statistics before the step ends
RatesInvokedIn(id) ==
    /\ healthChecks'[cycles'[id].pos].name = "error-rates"
    /\ id \in DOMAIN cycles => cycles[id].pos # cycles'[id].pos

\* C26: checkErrorRates reports 'critical' when the tracker's totalErrors is
\* above 10, 'warning' when it is above 5 and not above 10, 'healthy'
\* otherwise, and 'warning' if reading the statistics fails; the count it
\* judges is the tracker's totalErrors when the probe runs, that is in the
\* step that invokes it, and the report holds the status computed then
\* even if errors are recorded before the result reaches the loop.
C26_ErrorRateThresholds ==
    /\ [](\A n \in 0..(MaxErrorContexts + MaxErrorRate) :
            /\ checkErrorRates(n, TRUE) = "warning"
            /\ checkErrorRates(n, FALSE) =
                    IF n > 10 THEN "critical"
                    ELSE IF n > 5 THEN "warning"
                    ELSE "healthy")
    /\ [][ \A id \in DOMAIN cycles' :
            RatesInvokedIn(id)
                => LET status == cycles'[id].probe.status
                   IN  /\ cycles'[id].probe.phase = "settled"
                       /\ status \in {"healthy", "warning", "critical"}
                       /\ status = "critical" <=> totalErrors > 10
                       /\ status = "healthy" <=> totalErrors <= 5
      ]_vars
    /\ [][ \A id \in DOMAIN cycles :
            ( /\ ProbeReturnedIn(id)
              /\ healthChecks[cycles[id].pos].name = "error-rates" )
                => LET returned ==
                           ResultsAfter(id).checks[cycles[id].pos].returned
                   IN  /\ returned = cycles[id].probe.status
                       /\ returned = "critical" => totalErrors > 10
                       /\ returned # "healthy" => totalErrors > 5
      ]_vars

\* the error-rate probe of the initial cycle's report returned 'warning' for
\* the 10 errors it read; the 11th was recorded before its result reached
\* the loop, and the probe of the cycle that the timer started one interval
\* later is awaited with 'critical'
C26_Witness ==
    /\ totalErrors = 11
    /\ lastHealthReport.cycle = InitialCycle
    /\ now >= healthReportInterval
    /\ \E e \in EntriesOf(lastHealthReport, "error-rates") :
            e.returned = "warning"
    /\ lastTracked.data.timestamp = lastHealthReport.timestamp
    /\ \E id \in DOMAIN cycles :
            /\ Awaits(id, "error-rates")
            /\ cycles[id].probe.status = "critical"

(***************************************************************************)
(* The classifiers.                                                        *)
(***************************************************************************)
SeverityRank(severity) ==
    CASE severity = "low" -> 0
      [] severity = "medium" -> 1
      [] severity = "high" -> 2
      [] severity = "critical" -> 3

\* the indicators of each level of the generic classifier
MessageIndicators ==
    [critical |-> {"Database not initialized", "Discord client not ready",
                   "Permission denied"},
     high |-> {"Invalid", "Missing", "Required"},
     medium |-> {"Not found", "Already exists"}]

CodeIndicators ==
    [critical |-> {Str("ECONNREFUSED"), Str("ENOTFOUND")},
     high |-> {Num(50013), Num(50001)},
     medium |-> {Num(10008)}]

\* the levels one of whose indicators the error matches
MatchedLevels(error) ==
    {level \in {"critical", "high", "medium"} :
        \/ \E text \in MessageIndicators[level] :
                Includes(error.message, text)
        \/ error.code \in CodeIndicators[level]}

\* C27: determineErrorSeverity gives an error the most severe level among
\* those whose indicators it matches (the rules are tried in the order
\* critical, high, medium and the first match wins), low when it matches
\* none, and always one of low, medium, high, critical.
C27_FirstMatchWins ==
    classified.generic # NoSeverity =>
        /\ classified.generic \in Severities
        /\ classified.generic # "low" =>
                /\ classified.generic \in MatchedLevels(classifyInput)
                /\ \A level \in MatchedLevels(classifyInput) :
                        SeverityRank(level)
                            <= SeverityRank(classified.generic)
        /\ classified.generic = "low" <=> MatchedLevels(classifyInput) = {}

\* an error matching indicators of all three levels was classified critical
C27_Witness ==
    /\ MatchedLevels(classifyInput) = {"critical", "high", "medium"}
    /\ classifyInput.message = "Permission denied: Missing Access"
    /\ classifyInput.code = Num(10008)
    /\ classified.generic = "critical"

\* the severity the platform codes call for
SeverityOfCode(code) ==
    IF code \in {Num(50001), Num(50013), Num(50035), Num(50036)}
    THEN "critical"
    ELSE IF code \in {Num(10008), Num(10062), Num(10015)} THEN "high"
    ELSE IF code = Num(429) THEN "medium"
    ELSE "low"

\* C28: determineDiscordErrorSeverity depends on the error code alone:
\* 50001, 50013, 50035 and 50036 give critical, 10008, 10062 and 10015 give
\* high, 429 gives medium and every other code, or none, gives low,
\* whatever the message is, also when there is none.
C28_SeverityByCodeAlone ==
    classified.discord # NoSeverity =>
        /\ classified.discord = SeverityOfCode(classifyInput.code)
        /\ \A m \in ClassifierMessages \cup {Undefined} :
                determineDiscordErrorSeverity(
                    [classifyInput EXCEPT !.message = m])
                        = classified.discord

\* the rate-limit code with a message the generic classifier rates critical
C28_Witness ==
    /\ classifyInput.code = Num(429)
    /\ classifyInput.message = "Database not initialized"
    /\ classified.discord = "medium"
    /\ classified.generic = "critical"

(***************************************************************************)
(* Retry sequences run to their end.                                       *)
(***************************************************************************)
RetryEnded == retryPc \in {"returned", "thrown"}

\* C29: when every attempt settles and every delay timer fires, a call of a
\* function made by withRetry ends: it returns the result of the first
\* attempt that succeeds, or it rejects; it makes at most maxRetries + 1
\* attempts and none once it has ended.
C29_RetrySequenceEnds ==
    /\ (retryPc # "idle") ~> RetryEnded
    /\ [](opCalls <= maxRetries + 1)
    /\ [](retryPc = "returned" =>
            /\ retryResult.kind = "returned"
            /\ Len(failures) = opCalls - 1)
    /\ [](retryPc = "thrown" =>
            /\ retryResult.kind = "thrown"
            /\ Len(failures) = opCalls)
    /\ [][RetryEnded => UNCHANGED <<retryPc, opCalls, retryResult>>]_vars

\* a call that returned the result of its third attempt, after two delays
C29_Witness ==
    /\ retryPc = "returned"
    /\ opCalls = 3 /\ Len(failures) = 2 /\ waits = 2
    /\ maxRetries > 2

(***************************************************************************)
(* The fingerprints of the tracker and of the throttle.                    *)
(***************************************************************************)
\* C30 as stated: the tracker and the throttle derive the same fingerprint
\* for a reported error, so the entry the tracker stores for it and the
\* throttle record of its notification carry the same key.
C30_SameFingerprintInBoth ==
    ( /\ lastHandled.tracked
      /\ lastHandled.calls[1].severity \in {"high", "critical"}
      /\ Len(notifyLog) > 0 )
        => /\ notifyLog[1].key =
                getErrorKey(lastHandled.calls[1].message,
                            [context |-> lastHandled.calls[1].context,
                             severity |-> lastHandled.calls[1].severity])
           /\ lastTracked.key = notifyLog[1].key

(***************************************************************************)
(* The occurrence counter written into a notification.                     *)
(***************************************************************************)
\* the attempts for the fingerprint of attempt j made during the cooldown
\* window that ends with j, j included, since the last resetErrorTracking
OccurrencesInWindow(j) ==
    {i \in Attempts :
        /\ i <= j
        /\ NoResetBetween(i, j)
        /\ notifyLog[i].key = notifyLog[j].key
        /\ SinceAttempt(i, j) < adminNotificationCooldown}

\* C31 as stated: the error count written into a notification is the number
\* of occurrences of its fingerprint during the last cooldown window.
C31_CountIsOccurrencesInWindow ==
    \A j \in Attempts :
        notifyLog[j].sent =>
            notifyLog[j].count = Cardinality(OccurrencesInWindow(j))

(***************************************************************************)
(* The error-rate probe over the life of the process.                      *)
(***************************************************************************)
\* the stored report holds a 'critical' returned by the error-rate probe
RatesReportedCritical ==
    \E e \in EntriesOf(lastHealthReport, "error-rates") :
        e.returned = "critical"

\* C32: the number of fingerprints the tracker holds never decreases, neither
\* when an error is recorded (an entry is added, overwritten, or added while
\* the oldest is evicted at the cap) nor when the statistics are read; a
\* stored report holds 'critical' from the error-rate probe only while the
\* tracker holds more than 10 fingerprints; so once a stored report holds
\* 'critical' from the probe, every report stored later holds 'critical' from
\* it too, and the probe returns nothing else.
C32_CriticalErrorRateIsPermanent ==
    /\ [][Len(errorContexts') >= Len(errorContexts)]_vars
    /\ [][ lastTracked' # lastTracked
            => \/ Len(errorContexts') = Len(errorContexts) + 1
               \/ /\ Len(errorContexts') = Len(errorContexts)
                  /\ \/ lastTracked'.key \in Keys
                     \/ Len(errorContexts) = MaxErrorContexts ]_vars
    /\ [](RatesReportedCritical => totalErrors > criticalThresholds.errorRate)
    /\ [][RatesReportedCritical => RatesReportedCritical']_vars
    /\ [][ \A id \in DOMAIN cycles :
            ( /\ ProbeReturnedIn(id)
              /\ healthChecks[cycles[id].pos].name = "error-rates"
              /\ RatesReportedCritical )
                => ResultsAfter(id).checks[cycles[id].pos].returned
                        = "critical" ]_vars

\* the initial cycle and the cycle of the timer, one interval later, both
\* stored 'critical' from the error-rate probe, and the tracker, at its cap,
\* has evicted its oldest entry for a new one
C32_Witness ==
    /\ RatesReportedCritical
    /\ lastHealthReport.cycle = InitialCycle + 1
    /\ lastHealthReport.timestamp >= healthReportInterval
    /\ healthChecks[CheckIndex("error-rates")].consecutiveFailures = 2
    /\ totalErrors = MaxErrorContexts
    /\ lastEvicted # ""

(***************************************************************************)
(* The shape of a health report.                                           *)
(***************************************************************************)
\* the reports of the process: the stored one and those being built
Reports ==
    (IF lastHealthReport = NoReport THEN {} ELSE {lastHealthReport})
        \cup {cycles[id].results : id \in DOMAIN cycles}

\* the names held by a list of issues
Names(list) == {list[i] : i \in 1..Len(list)}

\* overall agrees with the two lists of r
OverallAgrees(r) ==
    /\ r.overall \in {"healthy", "warning", "critical"}
    /\ r.overall = "critical" <=> r.criticalIssues # <<>>
    /\ r.overall = "warning"
            <=> (r.criticalIssues = <<>> /\ r.warnings # <<>>)
    /\ r.overall = "healthy"
            <=> (r.criticalIssues = <<>> /\ r.warnings = <<>>)

\* C33: in every health report, overall is 'critical' exactly when
\* criticalIssues is non-empty, 'warning' exactly when criticalIssues is
\* empty and warnings is not, 'healthy' exactly when both are empty; and no
\* check is in both lists.
C33_OverallAgreesWithIssueLists ==
    \A r \in Reports :
        /\ OverallAgrees(r)
        /\ Names(r.criticalIssues) \cap Names(r.warnings) = {}

\* a stored report of two checks: the first a critical issue, the second a
\* warning that left overall 'critical'
C33_Witness ==
    /\ Len(lastHealthReport.checks) = 2
    /\ lastHealthReport.checks[2].returned = "warning"
    /\ Len(lastHealthReport.criticalIssues) = 1
    /\ lastHealthReport.criticalIssues[1] = lastHealthReport.checks[1].name
    /\ Len(lastHealthReport.warnings) = 1
    /\ lastHealthReport.warnings[1] = lastHealthReport.checks[2].name
    /\ lastHealthReport.overall = "critical"

(***************************************************************************)
(* The order of the checks.                                                *)
(***************************************************************************)
\* the orders in which n checks can be registered
Orders(n) ==
    {p \in [1..n -> 1..n] : \A i, j \in 1..n : i # j => p[i] # p[j]}

\* the results of the loop of runHealthChecks over the first k checks of
\* order p, each check keeping the flag and the probe outcome it has in r
RECURSIVE RunInOrder(_, _, _)
RunInOrder(r, p, k) ==
    IF k = 0 THEN NewResults(r.cycle)
    ELSE LET before == RunInOrder(r, p, k - 1)
             e == r.checks[p[k]]
             check == [name |-> e.name, critical |-> Flagged(e)]
         IN  IF e.threw THEN AfterThrow(before, check)
             ELSE AfterResult(before, check, e.returned)

\* C34: the checks of a report, run in any other order with the same flags
\* and the same probe outcomes, give the same overall, the same set of
\* critical issues and the same set of warnings; run in the order of the
\* report they give its lists.
C34_OrderOfChecksIsIrrelevant ==
    \A r \in Reports :
        /\ \A p \in Orders(Len(r.checks)) :
            LET o == RunInOrder(r, p, Len(r.checks))
            IN  /\ o.overall = r.overall
                /\ Names(o.criticalIssues) = Names(r.criticalIssues)
                /\ Names(o.warnings) = Names(r.warnings)
        /\ LET same == RunInOrder(r, [i \in 1..Len(r.checks) |-> i],
                                  Len(r.checks))
           IN  /\ same.checks = r.checks
               /\ same.criticalIssues = r.criticalIssues
               /\ same.warnings = r.warnings

\* a stored report of two checks whose first probe returned 'warning' and
\* whose second is a critical issue: in the other order the warning comes
\* when overall is already 'critical'
C34_Witness ==
    /\ Len(lastHealthReport.checks) = 2
    /\ lastHealthReport.checks[1].returned = "warning"
    /\ lastHealthReport.warnings = <<lastHealthReport.checks[1].name>>
    /\ lastHealthReport.criticalIssues = <<lastHealthReport.checks[2].name>>
    /\ lastHealthReport.overall = "critical"
    /\ RunInOrder(lastHealthReport, <<2, 1>>, 2).warnings
            = lastHealthReport.warnings

(***************************************************************************)
(* The alerting path does not feed itself.                                 *)
(***************************************************************************)
\* C35: the settlement of a dispatch, failed ones included, starts no notify
\* attempt and no call of the sink: the error that sendNotification logs for
\* a failed send is not eligible for admin notification, and the catch of
\* handleAdminNotification logs to the console only.  The logger calls the
\* sink only in the step of a reported error, once.
C35_SinkFailureStartsNoAttempt ==
    /\ [][ Len(settled') = Len(settled) + 1
           => /\ notifyLog' = notifyLog
              /\ sinkCalls' = sinkCalls
              /\ inFlight' = inFlight \ {LastSettled'.id}
              /\ errorCounts' = errorCounts
              /\ LastSettled'.outcome = "failed"
                    => (~Eligible(lastLog') /\ ~lastLog'.reached) ]_vars
    /\ [][ sinkCalls' # sinkCalls
           => /\ sinkCalls' = sinkCalls + 1
              /\ Len(notifyLog') = Len(notifyLog) + 1
              /\ settled' = settled ]_vars

\* the only dispatch of the process failed at a time when an eligible error
\* with a fingerprint of its own would have passed the cooldown check, with
\* error logging enabled: the failure was logged and reached no throttle
C35_Witness ==
    /\ logLevelEnv = Undefined
    /\ now >= adminNotificationCooldown
    /\ settled = <<[id |-> 1, outcome |-> "failed"]>>
    /\ Len(notifyLog) = 1
    /\ notifyLog[1].sent
    /\ sinkCalls = 1
    /\ inFlight = {}
    /\ lastLog = [severity |-> Undefined, notifyAdmin |-> FALSE,
                  reached |-> FALSE]

(***************************************************************************)
(* The log level and admin notifications.                                  *)
(***************************************************************************)
\* C36 as stated: whatever LOG_LEVEL is, a call logged at severity high or
\* critical reaches the cooldown check of handleAdminNotification.
C36_HighAndCriticalReachThrottle ==
    lastLog.severity \in {"high", "critical"} => lastLog.reached
====
